---- MODULE Spec2Model ----
(***************************************************************************)
(* X25519KeyAgreementKey2019 (src/lib/crypto.js): the key pair object, its *)
(* construction paths, export, the multicodec/multibase fingerprint and    *)
(* its verification, the Ed25519 conversions and the key agreement over    *)
(* the backend the module selected when it was loaded.                     *)
(*                                                                         *)
(* JavaScript values.  A string is a sequence of one-character strings     *)
(* ("ab" is <<"a", "b">>, '' is <<>>).  The values undefined, null and a   *)
(* non-string (the number 42) are the one-element sequences Undefined,     *)
(* Null and NonString, whose element is longer than one character and so   *)
(* is no string.  A Uint8Array is a sequence over 0..255.                  *)
(***************************************************************************)
EXTENDS Integers, Sequences, FiniteSets, TLC

VARIABLES keys, last, backend, calls

vars == <<keys, last, backend, calls>>

Undefined == <<"undefined">>
Null == <<"null">>
NonString == <<"number">>
JsTrue == <<"true">>
JsFalse == <<"false">>
\* a property an object literal does not have
Absent == <<"absent">>

\* typeof v === 'string'
IsString(v) == v \notin {Undefined, Null, NonString, JsTrue, JsFalse, Absent}

\* JavaScript truthiness: undefined, null, false and '' are falsy
Truthy(v) == v \notin {Undefined, Null, JsFalse, <<>>, Absent}

\* o.f: reading a property the object does not have gives undefined
Get(o, f) == IF o[f] = Absent THEN Undefined ELSE o[f]

\* {f = d}: a destructured parameter takes its default when undefined
Default(v, d) == IF v \in {Absent, Undefined} THEN d ELSE v

(***************************************************************************)
(* base58-universal: encode and decode over the bitcoin alphabet.          *)
(***************************************************************************)
Alphabet ==
  << "1", "2", "3", "4", "5", "6", "7", "8", "9",
     "A", "B", "C", "D", "E", "F", "G", "H", "J", "K", "L", "M", "N",
     "P", "Q", "R", "S", "T", "U", "V", "W", "X", "Y", "Z",
     "a", "b", "c", "d", "e", "f", "g", "h", "i", "j", "k", "m", "n",
     "o", "p", "q", "r", "s", "t", "u", "v", "w", "x", "y", "z" >>

Base == Len(Alphabet)

\* the characters /\s/ matches, as far as the inputs use them
Whitespace == {" "}

\* table[input.charCodeAt(i)]: the digit of a character, 0 for none
CharValue(c) ==
  IF \E i \in 1..Base : Alphabet[i] = c
  THEN (CHOOSE i \in 1..Base : Alphabet[i] = c)
  ELSE 0

Reverse(s) == [i \in 1..Len(s) |-> s[Len(s) + 1 - i]]

\* The loops below run over index ranges lo..hi. A range is split in halves
\* and the halves are run in index order, which applies the loop body to the
\* same indices in the same order and keeps the evaluation shallow; they are
\* functions, whose arguments are values when the body is evaluated.

\* the inner for loop of encode and of decode over the positions lo..hi of
\* digits (little-endian): carry += digits[j] * mul; digits[j] = carry % base;
\* carry = (carry / base) | 0. The state st is <<digits, carry>>.
CarryLoop[st \in Seq(Nat) \X Nat, lo, hi, mul, base \in Nat] ==
  IF lo > hi
  THEN st
  ELSE IF lo = hi
  THEN LET c == st[2] + st[1][lo] * mul
       IN  <<[st[1] EXCEPT ![lo] = c % base], c \div base>>
  ELSE LET mid == (lo + hi) \div 2
       IN  CarryLoop[CarryLoop[st, lo, mid, mul, base], mid + 1, hi, mul, base]

\* while(carry > 0) { digits.push(carry % base); carry = (carry / base) | 0 }
RECURSIVE CarryPush(_, _, _)
CarryPush(digits, carry, base) ==
  IF carry > 0
  THEN CarryPush(Append(digits, carry % base), carry \div base, base)
  ELSE digits

\* the body of the outer loop: one more digit or byte is taken in
CarryStep(digits, carry, mul, base) ==
  LET st == CarryLoop[<<digits, carry>>, 1, Len(digits), mul, base]
  IN  CarryPush(st[1], st[2], base)

\* the outer for loop of encode over input[lo..hi]
EncodeDigits[input \in Seq(Nat), lo, hi \in Nat, digits \in Seq(Nat)] ==
  IF lo > hi
  THEN digits
  ELSE IF lo = hi
  THEN CarryStep(digits, input[lo], 256, Base)
  ELSE LET mid == (lo + hi) \div 2
       IN  EncodeDigits[input, mid + 1, hi, EncodeDigits[input, lo, mid, digits]]

\* for(i = 0; input[i] === 0 && i < input.length - 1; ++i)
RECURSIVE LeadingCount(_, _, _)
LeadingCount(input, zero, i) ==
  IF i < Len(input) /\ input[i] = zero
  THEN LeadingCount(input, zero, i + 1)
  ELSE i - 1

\* encode(input): a Uint8Array to its base58 string
Encode(input) ==
  IF Len(input) = 0
  THEN <<>>
  ELSE LET digits == EncodeDigits[input, 1, Len(input), <<0>>]
           zeros == LeadingCount(input, 0, 1)
       IN  [i \in 1..zeros |-> Alphabet[1]] \o
           [i \in 1..Len(digits) |-> Alphabet[digits[Len(digits) + 1 - i] + 1]]

\* the digits of a base58 string
CharValues(input) == [i \in 1..Len(input) |-> CharValue(input[i]) - 1]

\* the outer for loop of decode over values[lo..hi], the digits of the input
DecodeBytes[values \in Seq(Nat), lo, hi \in Nat, bytes \in Seq(Nat)] ==
  IF lo > hi
  THEN bytes
  ELSE IF lo = hi
  THEN CarryStep(bytes, values[lo], Base, 256)
  ELSE LET mid == (lo + hi) \div 2
       IN  DecodeBytes[values, mid + 1, hi, DecodeBytes[values, lo, mid, bytes]]

\* input.replace(/\s/g, '')
StripWhitespace(input) == SelectSeq(input, LAMBDA c : c \notin Whitespace)

TypeErrorInput == [name |-> "TypeError", message |-> "\"input\" must be a string."]
NoError == [name |-> "", message |-> ""]
\* reading a property or an element of undefined
TypeErrorUndefined ==
  [name |-> "TypeError", message |-> "Cannot read properties of undefined"]
\* destructuring the parameter {..} = {} of a call that passes null
TypeErrorDestructure ==
  [name |-> "TypeError", message |-> "Cannot destructure property of null"]

\* A call's outcome: st is "ok" (val is returned), "undefined" (undefined is
\* returned) or "throw" (err is thrown).
Ok(v) == [st |-> "ok", val |-> v, err |-> NoError]
Undef == [st |-> "undefined", val |-> <<>>, err |-> NoError]
Throw(e) == [st |-> "throw", val |-> <<>>, err |-> e]

\* decode(input): a base58 string to its Uint8Array; a character outside
\* the alphabet makes it return undefined
Decode(input) ==
  IF ~IsString(input)
  THEN Throw(TypeErrorInput)
  ELSE IF Len(input) = 0
  THEN Ok(<<>>)
  ELSE LET in == StripWhitespace(input)
       IN  IF \E i \in 1..Len(in) : CharValue(in[i]) = 0
           THEN Undef
           ELSE LET bytes == DecodeBytes[CharValues(in), 1, Len(in), <<0>>]
                    zeros == LeadingCount(in, Alphabet[1], 1)
                IN  Ok(Reverse(bytes \o [i \in 1..zeros |-> 0]))

(***************************************************************************)
(* The key pair class.                                                     *)
(***************************************************************************)
\* A string whose characters no code looks at is written as one token.
SUITE_ID == <<"X25519KeyAgreementKey2019">>

SUITE_CONTEXT == <<"https://w3id.org/security/suites/x25519-2019/v1">>

ErrMissingPublicKey ==
  [name |-> "TypeError",
   message |-> "The \"publicKeyBase58\" property is required."]
ErrNotMultibase ==
  [name |-> "Error",
   message |-> "fingerprint must be a multibase encoded string."]
ErrUnsupportedFingerprint ==
  [name |-> "Error", message |-> "Unsupported Fingerprint Type"]
ErrFingerprintMismatch ==
  [name |-> "Error",
   message |-> "The fingerprint does not match the public key."]
ErrExportSelection ==
  [name |-> "TypeError",
   message |-> "Export requires specifying either \"publicKey\" or \"privateKey\"."]

\* the fields of the options object of the constructor
OptionFields ==
  {"id", "controller", "revoked", "type", "publicKeyBase58", "privateKeyBase58"}

NoOptions ==
  [type |-> Absent, id |-> Absent, controller |-> Absent, revoked |-> Absent,
   publicKeyBase58 |-> Absent, privateKeyBase58 |-> Absent]

\* {...a, ...b}: the properties of b override those of a
Spread(a, b) == [f \in OptionFields |-> IF b[f] = Absent THEN a[f] ELSE b[f]]

\* the header of an ed25519-pub key written in place of the x25519-pub one
FingerprintHeaderEd == <<237, 1>>

\* buffer[0] = 0xec; buffer[1] = 0x01: the multicodec x25519-pub header
FingerprintHeader == <<236, 1>>

\* static fingerprintFromPublicKey({publicKeyBase58})
FingerprintFromPublicKey(publicKeyBase58) ==
  LET pubkeyBytes == Decode(publicKeyBase58)
  IN  IF pubkeyBytes.st = "throw"
      THEN Throw(pubkeyBytes.err)
      ELSE IF pubkeyBytes.st = "undefined"
      THEN Throw(TypeErrorUndefined)
      ELSE Ok(<<"z">> \o Encode(FingerprintHeader \o pubkeyBytes.val))

\* the fingerprint is taken of the private key when there is one
FingerprintOfPrivateKey(this) ==
  FingerprintFromPublicKey(IF Truthy(this.privateKeyBase58)
                           THEN this.privateKeyBase58
                           ELSE this.publicKeyBase58)

\* fingerprint()
Fingerprint(this) == FingerprintFromPublicKey(this.publicKeyBase58)

\* the id is derived before the public key is checked
ConstructorIdFirst(options) ==
  LET this == [type |-> SUITE_ID,
               id |-> Get(options, "id"),
               controller |-> Get(options, "controller"),
               revoked |-> Get(options, "revoked"),
               publicKeyBase58 |-> Get(options, "publicKeyBase58"),
               privateKeyBase58 |-> Get(options, "privateKeyBase58")]
      fp == Fingerprint(this)
  IN  IF Truthy(this.controller) /\ ~Truthy(this.id) /\ fp.st = "throw"
      THEN fp
      ELSE IF ~Truthy(this.publicKeyBase58)
      THEN Throw(ErrMissingPublicKey)
      ELSE IF Truthy(this.controller) /\ ~Truthy(this.id)
      THEN Ok([this EXCEPT !.id = this.controller \o <<"#">> \o fp.val])
      ELSE Ok(this)

\* the id is derived whenever there is a controller
ConstructorAlwaysDerives(options) ==
  LET this == [type |-> SUITE_ID,
               id |-> Get(options, "id"),
               controller |-> Get(options, "controller"),
               revoked |-> Get(options, "revoked"),
               publicKeyBase58 |-> Get(options, "publicKeyBase58"),
               privateKeyBase58 |-> Get(options, "privateKeyBase58")]
  IN  IF ~Truthy(this.publicKeyBase58)
      THEN Throw(ErrMissingPublicKey)
      ELSE IF Truthy(this.controller)
      THEN LET fp == Fingerprint(this)
           IN  IF fp.st = "throw"
               THEN fp
               ELSE Ok([this EXCEPT !.id = this.controller \o <<"#">> \o fp.val])
      ELSE Ok(this)

\* the type of the options is kept when they carry one
ConstructorKeepsType(options) ==
  LET this == [type |-> IF Truthy(Get(options, "type"))
                        THEN Get(options, "type") ELSE SUITE_ID,
               id |-> Get(options, "id"),
               controller |-> Get(options, "controller"),
               revoked |-> Get(options, "revoked"),
               publicKeyBase58 |-> Get(options, "publicKeyBase58"),
               privateKeyBase58 |-> Get(options, "privateKeyBase58")]
  IN  IF ~Truthy(this.publicKeyBase58)
      THEN Throw(ErrMissingPublicKey)
      ELSE IF Truthy(this.controller) /\ ~Truthy(this.id)
      THEN LET fp == Fingerprint(this)
           IN  IF fp.st = "throw"
               THEN fp
               ELSE Ok([this EXCEPT !.id = this.controller \o <<"#">> \o fp.val])
      ELSE Ok(this)

\* constructor(options = {}), with super(options) of LDKeyPair, which sets
\* id, controller and revoked
Constructor(options) ==
  LET this == [type |-> SUITE_ID,
               id |-> Get(options, "id"),
               controller |-> Get(options, "controller"),
               revoked |-> Get(options, "revoked"),
               publicKeyBase58 |-> Get(options, "publicKeyBase58"),
               privateKeyBase58 |-> Get(options, "privateKeyBase58")]
  IN  IF ~Truthy(this.publicKeyBase58)
      THEN Throw(ErrMissingPublicKey)
      ELSE IF Truthy(this.controller) /\ ~Truthy(this.id)
      THEN LET fp == Fingerprint(this)
           IN  IF fp.st = "throw"
               THEN fp
               ELSE Ok([this EXCEPT !.id = this.controller \o <<"#">> \o fp.val])
      ELSE Ok(this)

\* the argument of a call that takes {fingerprint} = {}: given is "none" (no
\* argument, or undefined), "null" or "object"
FingerprintArg(given, fingerprint) == [given |-> given, fingerprint |-> fingerprint]

\* the element after the one meant is compared
ByteIsOffByOne(buffer, i, b) == i < Len(buffer) /\ buffer[i + 1] = b

\* buffer[i] === b, for an index that may be past the end
ByteIs(buffer, i, b) == i <= Len(buffer) /\ buffer[i] = b

\* the multicodec header of the decoded fingerprint is not looked at
FromFingerprintAnyHeader(arg) ==
  IF arg.given = "null"
  THEN Throw(TypeErrorDestructure)
  ELSE LET fingerprint == IF arg.given = "none" THEN Undefined
                          ELSE Get(arg, "fingerprint")
       IN  IF ~Truthy(fingerprint) \/
              ~(IsString(fingerprint) /\ Head(fingerprint) = "z")
           THEN Throw(ErrNotMultibase)
           ELSE LET buffer == Decode(Tail(fingerprint))
                IN  IF buffer.st = "undefined"
                    THEN Throw(TypeErrorUndefined)
                    ELSE Constructor([NoOptions EXCEPT
                           !.publicKeyBase58 =
                             Encode(SubSeq(buffer.val, 3, Len(buffer.val)))])

\* the fingerprint is taken as the id of the key pair
FromFingerprintSetsId(arg) ==
  IF arg.given = "null"
  THEN Throw(TypeErrorDestructure)
  ELSE LET fingerprint == IF arg.given = "none" THEN Undefined
                          ELSE Get(arg, "fingerprint")
       IN  IF ~Truthy(fingerprint) \/
              ~(IsString(fingerprint) /\ Head(fingerprint) = "z")
           THEN Throw(ErrNotMultibase)
           ELSE LET buffer == Decode(Tail(fingerprint))
                IN  IF buffer.st = "undefined"
                    THEN Throw(TypeErrorUndefined)
                    ELSE IF ~ByteIs(buffer.val, 1, 236) \/
                            ~ByteIs(buffer.val, 2, 1)
                    THEN Throw(ErrUnsupportedFingerprint)
                    ELSE Constructor([NoOptions EXCEPT
                           !.id = fingerprint,
                           !.publicKeyBase58 =
                             Encode(SubSeq(buffer.val, 3, Len(buffer.val)))])

\* only the first header byte is sliced off the buffer
FromFingerprintSliceOne(arg) ==
  IF arg.given = "null"
  THEN Throw(TypeErrorDestructure)
  ELSE LET fingerprint == IF arg.given = "none" THEN Undefined
                          ELSE Get(arg, "fingerprint")
       IN  IF ~Truthy(fingerprint) \/
              ~(IsString(fingerprint) /\ Head(fingerprint) = "z")
           THEN Throw(ErrNotMultibase)
           ELSE LET buffer == Decode(Tail(fingerprint))
                IN  IF buffer.st = "undefined"
                    THEN Throw(TypeErrorUndefined)
                    ELSE IF ~ByteIs(buffer.val, 1, 236) \/
                            ~ByteIs(buffer.val, 2, 1)
                    THEN Throw(ErrUnsupportedFingerprint)
                    ELSE Constructor([NoOptions EXCEPT
                           !.publicKeyBase58 =
                             Encode(SubSeq(buffer.val, 2, Len(buffer.val)))])

\* static fromFingerprint({fingerprint} = {})
FromFingerprint(arg) ==
  IF arg.given = "null"
  THEN Throw(TypeErrorDestructure)
  ELSE LET fingerprint == IF arg.given = "none" THEN Undefined
                          ELSE Get(arg, "fingerprint")
       IN  IF ~Truthy(fingerprint) \/
              ~(IsString(fingerprint) /\ Head(fingerprint) = "z")
           THEN Throw(ErrNotMultibase)
           ELSE LET buffer == Decode(Tail(fingerprint))
                IN  IF buffer.st = "undefined"
                    THEN Throw(TypeErrorUndefined)
                    ELSE IF ~ByteIs(buffer.val, 1, 236) \/
                            ~ByteIs(buffer.val, 2, 1)
                    THEN Throw(ErrUnsupportedFingerprint)
                    ELSE Constructor([NoOptions EXCEPT
                           !.publicKeyBase58 =
                             Encode(SubSeq(buffer.val, 3, Len(buffer.val)))])

\* Uint8Array.prototype.toString(): the decimal elements joined by ',',
\* as a sequence of digits with 10 for the comma
RECURSIVE Decimal(_)
Decimal(n) == IF n < 10 THEN <<n>> ELSE Append(Decimal(n \div 10), n % 10)

RECURSIVE BytesToString(_)
BytesToString(bytes) ==
  IF Len(bytes) = 0 THEN <<>>
  ELSE IF Len(bytes) = 1 THEN Decimal(bytes[1])
  ELSE Decimal(bytes[1]) \o <<10>> \o BytesToString(Tail(bytes))

\* the test of the 'z' prefix is left out
IsMultibaseNoPrefix(fingerprint) ==
  IsString(fingerprint) /\ Len(fingerprint) > 0

\* typeof fingerprint === 'string' && fingerprint[0] === 'z'
IsMultibase(fingerprint) ==
  IsString(fingerprint) /\ Len(fingerprint) > 0 /\ Head(fingerprint) = "z"

\* the second byte of the header is not compared
FingerprintValidFirstByte(fingerprintBuffer, publicKeyBuffer) ==
  IF fingerprintBuffer.st = "undefined"
  THEN Throw(TypeErrorUndefined)
  ELSE IF ~ByteIs(fingerprintBuffer.val, 1, 236)
  THEN Ok(FALSE)
  ELSE IF publicKeyBuffer.st = "undefined"
  THEN Throw(TypeErrorUndefined)
  ELSE Ok(BytesToString(publicKeyBuffer.val) =
          BytesToString(SubSeq(fingerprintBuffer.val, 3,
                               Len(fingerprintBuffer.val))))

\* const valid = fingerprintBuffer[0] === 0xec && fingerprintBuffer[1] === 0x01
\*   && publicKeyBuffer.toString() === fingerprintBuffer.slice(2).toString(),
\* for the two outcomes of decode: an undefined buffer throws where it is read
FingerprintValid(fingerprintBuffer, publicKeyBuffer) ==
  IF fingerprintBuffer.st = "undefined"
  THEN Throw(TypeErrorUndefined)
  ELSE IF ~ByteIs(fingerprintBuffer.val, 1, 236) \/
          ~ByteIs(fingerprintBuffer.val, 2, 1)
  THEN Ok(FALSE)
  ELSE IF publicKeyBuffer.st = "undefined"
  THEN Throw(TypeErrorUndefined)
  ELSE Ok(BytesToString(publicKeyBuffer.val) =
          BytesToString(SubSeq(fingerprintBuffer.val, 3,
                               Len(fingerprintBuffer.val))))

\* verifyFingerprint({fingerprint} = {}): the returned object, or the throw
VerifyFingerprint(this, arg) ==
  IF arg.given = "null"
  THEN Throw(TypeErrorDestructure)
  ELSE LET fingerprint == IF arg.given = "none" THEN Undefined
                          ELSE Get(arg, "fingerprint")
       IN  IF ~IsMultibase(fingerprint)
           THEN Ok([valid |-> FALSE, error |-> ErrNotMultibase])
           ELSE LET fingerprintBuffer == Decode(Tail(fingerprint))
                    publicKeyBuffer == Decode(this.publicKeyBase58)
                    valid == FingerprintValid(fingerprintBuffer, publicKeyBuffer)
                IN  IF fingerprintBuffer.st = "throw"
                    THEN Ok([valid |-> FALSE, error |-> fingerprintBuffer.err])
                    ELSE IF publicKeyBuffer.st = "throw"
                    THEN Ok([valid |-> FALSE, error |-> publicKeyBuffer.err])
                    ELSE IF valid.st = "throw"
                    THEN valid
                    ELSE IF ~valid.val
                    THEN Ok([valid |-> FALSE, error |-> ErrFingerprintMismatch])
                    ELSE Ok([valid |-> TRUE])

\* the argument of export: given is "none" or "object"
ExportArg(given, publicKey, privateKey, includeContext) ==
  [given |-> given, publicKey |-> publicKey, privateKey |-> privateKey,
   includeContext |-> includeContext]

\* the private key is exported whenever the key pair has one
ExportedKeyWithPrivate(this, publicKey, privateKey, includeContext) ==
  LET always == [k \in {"id", "type"} |->
                   IF k = "id" THEN this.id ELSE this.type]
      context == IF Truthy(includeContext)
                 THEN [k \in {"@context"} |-> SUITE_CONTEXT] ELSE <<>>
      controller == IF Truthy(this.controller)
                    THEN [k \in {"controller"} |-> this.controller] ELSE <<>>
      public == IF Truthy(publicKey)
                THEN [k \in {"publicKeyBase58"} |-> this.publicKeyBase58]
                ELSE <<>>
      private == IF Truthy(this.privateKeyBase58)
                 THEN [k \in {"privateKeyBase58"} |-> this.privateKeyBase58]
                 ELSE <<>>
      revoked == IF Truthy(this.revoked)
                 THEN [k \in {"revoked"} |-> this.revoked] ELSE <<>>
  IN  always @@ context @@ controller @@ public @@ private @@ revoked

\* the revoked timestamp is left out of the exported object
ExportedKeyNoRevoked(this, publicKey, privateKey, includeContext) ==
  LET always == [k \in {"id", "type"} |->
                   IF k = "id" THEN this.id ELSE this.type]
      context == IF Truthy(includeContext)
                 THEN [k \in {"@context"} |-> SUITE_CONTEXT] ELSE <<>>
      controller == IF Truthy(this.controller)
                    THEN [k \in {"controller"} |-> this.controller] ELSE <<>>
      public == IF Truthy(publicKey)
                THEN [k \in {"publicKeyBase58"} |-> this.publicKeyBase58]
                ELSE <<>>
      private == IF Truthy(privateKey)
                 THEN [k \in {"privateKeyBase58"} |-> this.privateKeyBase58]
                 ELSE <<>>
  IN  always @@ context @@ controller @@ public @@ private

\* the exported object: the properties the export sets, in the order it sets them
ExportedKey(this, publicKey, privateKey, includeContext) ==
  LET always == [k \in {"id", "type"} |->
                   IF k = "id" THEN this.id ELSE this.type]
      context == IF Truthy(includeContext)
                 THEN [k \in {"@context"} |-> SUITE_CONTEXT] ELSE <<>>
      controller == IF Truthy(this.controller)
                    THEN [k \in {"controller"} |-> this.controller] ELSE <<>>
      public == IF Truthy(publicKey)
                THEN [k \in {"publicKeyBase58"} |-> this.publicKeyBase58]
                ELSE <<>>
      private == IF Truthy(privateKey)
                 THEN [k \in {"privateKeyBase58"} |-> this.privateKeyBase58]
                 ELSE <<>>
      revoked == IF Truthy(this.revoked)
                 THEN [k \in {"revoked"} |-> this.revoked] ELSE <<>>
  IN  always @@ context @@ controller @@ public @@ private @@ revoked

\* includeContext counts as a selection
ExportAnyFlag(this, arg) ==
  LET publicKey == IF arg.given = "none" THEN JsFalse
                   ELSE Default(arg.publicKey, JsFalse)
      privateKey == IF arg.given = "none" THEN JsFalse
                    ELSE Default(arg.privateKey, JsFalse)
      includeContext == IF arg.given = "none" THEN JsFalse
                        ELSE Default(arg.includeContext, JsFalse)
  IN  IF ~(Truthy(publicKey) \/ Truthy(privateKey) \/ Truthy(includeContext))
      THEN Throw(ErrExportSelection)
      ELSE Ok(ExportedKey(this, publicKey, privateKey, includeContext))

\* export({publicKey = false, privateKey = false, includeContext = false} = {})
Export(this, arg) ==
  LET publicKey == IF arg.given = "none" THEN JsFalse
                   ELSE Default(arg.publicKey, JsFalse)
      privateKey == IF arg.given = "none" THEN JsFalse
                    ELSE Default(arg.privateKey, JsFalse)
      includeContext == IF arg.given = "none" THEN JsFalse
                        ELSE Default(arg.includeContext, JsFalse)
  IN  IF ~(Truthy(publicKey) \/ Truthy(privateKey))
      THEN Throw(ErrExportSelection)
      ELSE Ok(ExportedKey(this, publicKey, privateKey, includeContext))

(***************************************************************************)
(* The external primitives, over sample keys.  The curve arithmetic is not *)
(* part of this module: key generation returns one of the sample pairs,    *)
(* and the Edwards-to-Montgomery conversions are tables over the samples.  *)
(***************************************************************************)
XPublicA == <<0, 7>>
XPrivateA == <<9, 200>>
XPublicB == <<236, 1>>
XPrivateB == <<255, 0>>

EdPublicA == <<1, 2>>
EdSeedA == <<5, 6>>
EdPublicB == <<0, 236>>
EdSeedB == <<0, 0>>

\* generateKeyPair(): a matched {publicKey, privateKey} pair
GeneratedPairs ==
  { [publicKey |-> XPublicA, privateKey |-> XPrivateA],
    [publicKey |-> XPublicB, privateKey |-> XPrivateB] }

\* the number of leading bytes of an Ed25519 secret key that are its seed
SeedLength == 32

\* keys of full length: a seed, the Ed25519 public key that follows it in
\* the 64-byte secret key, and the X25519 public key of that
EdSeedFull == [i \in 1..SeedLength |-> i]
EdPublicFull == [i \in 1..SeedLength |-> 100 + i]
EdSecretFull == EdSeedFull \o EdPublicFull
XPublicFull == [i \in 1..SeedLength |-> 200 + i]

\* Point.fromHex(bytes).toX25519() on the valid points
EdwardsToMontgomery ==
  (EdPublicA :> XPublicA) @@ (EdPublicB :> XPublicB)
  @@ (EdPublicFull :> XPublicFull)

ErrInvalidPoint == [name |-> "Error", message |-> "Point.fromHex: invalid point"]
ErrInvalidEdPublicKey ==
  [name |-> "Error",
   message |-> "Error converting to X25519; Invalid Ed25519 public key."]
ErrInvalidEdPrivateKey ==
  [name |-> "Error",
   message |-> "Error converting to X25519; Invalid Ed25519 private key."]

\* the conversion depends on the key pairs the caller already holds
PointToX25519Stateful(hex) ==
  IF hex \in DOMAIN EdwardsToMontgomery
  THEN Ok(IF "type" \in DOMAIN keys["local"] THEN hex ELSE EdwardsToMontgomery[hex])
  ELSE Throw(ErrInvalidPoint)

\* Point.fromHex(hex).toX25519(): fromHex throws on bytes that are no point
PointToX25519(hex) ==
  IF hex \in DOMAIN EdwardsToMontgomery
  THEN Ok(EdwardsToMontgomery[hex])
  ELSE Throw(ErrInvalidPoint)

\* the clamped SHA-512 of the short sample seeds
ClampedHash == (EdSeedA :> XPrivateA) @@ (EdSeedB :> XPrivateB)

\* crypto_hash(d, m, n): the 64-byte digest of the message; a stand-in for
\* SHA-512 that depends on every byte and on the length of the message
Sha512(m) ==
  [i \in 1..(2 * SeedLength) |->
     IF Len(m) = 0 THEN i
     ELSE (m[((i - 1) % Len(m)) + 1] + 3 * m[Len(m)] + Len(m) + i) % 256]

\* d[0] &= 248; d[31] &= 127; d[31] |= 64; o[i] = d[i] for the first 32
Clamped(d) ==
  [i \in 1..SeedLength |->
     IF i = 1 THEN d[i] - (d[i] % 8)
     ELSE IF i = SeedLength THEN (d[i] % 64) + 64
     ELSE d[i]]

\* the whole secret key is hashed, not its seed
ConvertSecretKeyWhole(sk) ==
  IF sk \in DOMAIN ClampedHash THEN ClampedHash[sk] ELSE Clamped(Sha512(sk))

\* ed2curve.convertSecretKey(sk): hashes the first 32 bytes of sk
ConvertSecretKey(sk) ==
  LET seed == SubSeq(sk, 1, IF Len(sk) < SeedLength THEN Len(sk) ELSE SeedLength)
  IN  IF seed \in DOMAIN ClampedHash THEN ClampedHash[seed]
      ELSE Clamped(Sha512(seed))

\* static convertFromEdPublicKey({publicKeyBase58}); fromHex throws on an
\* undefined argument as it does on bytes that are no point, and toX25519
\* returns bytes, so the test of its result never fails
ConvertFromEdPublicKey(publicKeyBase58) ==
  LET edPubkeyBytes == Decode(publicKeyBase58)
  IN  IF edPubkeyBytes.st = "throw"
      THEN Throw(edPubkeyBytes.err)
      ELSE IF edPubkeyBytes.st = "undefined"
      THEN Throw(ErrInvalidPoint)
      ELSE LET dhPubkeyBytes == PointToX25519(edPubkeyBytes.val)
           IN  IF dhPubkeyBytes.st = "throw"
               THEN dhPubkeyBytes
               ELSE IF dhPubkeyBytes.st = "undefined"
               THEN Throw(ErrInvalidEdPublicKey)
               ELSE Ok(Encode(dhPubkeyBytes.val))

\* static convertFromEdPrivateKey({privateKeyBase58}); convertSecretKey
\* returns bytes for every Uint8Array, so the test of its result never fails
ConvertFromEdPrivateKey(privateKeyBase58) ==
  LET edPrivkeyBytes == Decode(privateKeyBase58)
  IN  IF edPrivkeyBytes.st = "throw"
      THEN Throw(edPrivkeyBytes.err)
      ELSE IF edPrivkeyBytes.st = "undefined"
      THEN Throw(TypeErrorUndefined)
      ELSE LET dhPrivkeyBytes == ConvertSecretKey(edPrivkeyBytes.val)
           IN  IF dhPrivkeyBytes = Null
               THEN Throw(ErrInvalidEdPrivateKey)
               ELSE Ok(Encode(dhPrivkeyBytes))

\* the private key of the source is copied, not converted
FromEd2018CopiesPrivate(keyPair) ==
  LET publicKeyBase58 == ConvertFromEdPublicKey(keyPair.publicKeyBase58)
  IN  IF publicKeyBase58.st = "throw"
      THEN publicKeyBase58
      ELSE LET xKey == Constructor([NoOptions EXCEPT
                         !.controller = keyPair.controller,
                         !.publicKeyBase58 = publicKeyBase58.val])
           IN  IF xKey.st = "throw"
               THEN xKey
               ELSE IF ~Truthy(keyPair.privateKeyBase58)
               THEN xKey
               ELSE Ok([xKey.val EXCEPT
                      !.privateKeyBase58 = keyPair.privateKeyBase58])

\* static fromEd25519VerificationKey2018({keyPair})
FromEd25519VerificationKey2018(keyPair) ==
  LET publicKeyBase58 == ConvertFromEdPublicKey(keyPair.publicKeyBase58)
  IN  IF publicKeyBase58.st = "throw"
      THEN publicKeyBase58
      ELSE LET xKey == Constructor([NoOptions EXCEPT
                         !.controller = keyPair.controller,
                         !.publicKeyBase58 = publicKeyBase58.val])
           IN  IF xKey.st = "throw"
               THEN xKey
               ELSE IF ~Truthy(keyPair.privateKeyBase58)
               THEN xKey
               ELSE LET privateKeyBase58 ==
                          ConvertFromEdPrivateKey(keyPair.privateKeyBase58)
                    IN  IF privateKeyBase58.st = "throw"
                        THEN privateKeyBase58
                        ELSE Ok([xKey.val EXCEPT
                               !.privateKeyBase58 = privateKeyBase58.val])

MULTICODEC_ED25519_PUB_HEADER == <<237, 1>>
MULTICODEC_ED25519_PRIV_HEADER == <<128, 38>>

ErrSourcePublicKeyRequired ==
  [name |-> "Error", message |-> "Source public key is required to convert."]
ErrSourcePublicEncoding ==
  [name |-> "TypeError",
   message |-> "Expecting source public Ed25519 2020 key to have base58btc encoding."]
ErrSourcePrivateEncoding ==
  [name |-> "TypeError",
   message |-> "Expecting source private Ed25519 2020 key to have base58btc encoding."]
ErrMultibaseHeader ==
  [name |-> "Error", message |-> "Multibase value does not have expected header."]

\* the header is checked but not stripped
MultibaseDecodeKeepsHeader(header, text) ==
  LET mcValue == Decode(IF Len(text) = 0 THEN text ELSE Tail(text))
  IN  IF mcValue.st = "undefined"
      THEN Throw(TypeErrorUndefined)
      ELSE IF ~(\A i \in 1..Len(header) : ByteIs(mcValue.val, i, header[i]))
      THEN Throw(ErrMultibaseHeader)
      ELSE Ok(mcValue.val)

\* the header is stripped but not checked
MultibaseDecodeUnchecked(header, text) ==
  LET mcValue == Decode(IF Len(text) = 0 THEN text ELSE Tail(text))
  IN  IF mcValue.st = "undefined"
      THEN Throw(TypeErrorUndefined)
      ELSE Ok(SubSeq(mcValue.val, Len(header) + 1, Len(mcValue.val)))

\* _multibaseDecode(header, text)
MultibaseDecode(header, text) ==
  LET mcValue == Decode(IF Len(text) = 0 THEN text ELSE Tail(text))
  IN  IF mcValue.st = "undefined"
      THEN Throw(TypeErrorUndefined)
      ELSE IF ~(\A i \in 1..Len(header) : ByteIs(mcValue.val, i, header[i]))
      THEN Throw(ErrMultibaseHeader)
      ELSE Ok(SubSeq(mcValue.val, Len(header) + 1, Len(mcValue.val)))

\* static fromEd25519VerificationKey2020({keyPair}); the multibase fields of
\* the source are strings or undefined
FromEd25519VerificationKey2020(keyPair) ==
  IF ~Truthy(keyPair.publicKeyMultibase)
  THEN Throw(ErrSourcePublicKeyRequired)
  ELSE IF Head(keyPair.publicKeyMultibase) # "z"
  THEN Throw(ErrSourcePublicEncoding)
  ELSE LET publicBytes == MultibaseDecode(MULTICODEC_ED25519_PUB_HEADER,
                                          keyPair.publicKeyMultibase)
           publicKeyBase58 == ConvertFromEdPublicKey(Encode(publicBytes.val))
           xKey == Constructor([NoOptions EXCEPT
                     !.controller = keyPair.controller,
                     !.publicKeyBase58 = publicKeyBase58.val])
       IN  IF publicBytes.st = "throw" THEN publicBytes
           ELSE IF publicKeyBase58.st = "throw" THEN publicKeyBase58
           ELSE IF xKey.st = "throw" THEN xKey
           ELSE IF ~Truthy(keyPair.privateKeyMultibase) THEN xKey
           ELSE IF Head(keyPair.privateKeyMultibase) # "z"
           THEN Throw(ErrSourcePrivateEncoding)
           ELSE LET privateBytes == MultibaseDecode(
                                      MULTICODEC_ED25519_PRIV_HEADER,
                                      keyPair.privateKeyMultibase)
                    privateKeyBase58 ==
                      ConvertFromEdPrivateKey(Encode(privateBytes.val))
                IN  IF privateBytes.st = "throw" THEN privateBytes
                    ELSE IF privateKeyBase58.st = "throw" THEN privateKeyBase58
                    ELSE Ok([xKey.val EXCEPT
                           !.privateKeyBase58 = privateKeyBase58.val])

\* static async generate(options = {}), for the pair the primitive returned
Generate(options, pair) ==
  Constructor(Spread([NoOptions EXCEPT
                        !.publicKeyBase58 = Encode(pair.publicKey),
                        !.privateKeyBase58 = Encode(pair.privateKey)],
                     options))

\* from() drops the private key
FromPublicOnly(options) ==
  Constructor([options EXCEPT !.privateKeyBase58 = Absent])

\* static async from(options)
From(options) == Constructor(options)

(***************************************************************************)
(* Key agreement.  The module binds deriveSecret to the native backend     *)
(* when crypto.diffieHellman exists and to the tweetnacl backend           *)
(* otherwise.  The curve arithmetic is a table over the sample keys; the   *)
(* length of the sample keys stands for the 32 bytes of a raw key.         *)
(***************************************************************************)
Backends == {"native", "nacl"}

\* a public key of low order: the scalar multiplication gives zeros
XLowOrder == <<1, 0>>

\* the scalar multiplication on the sample pairs, with the Diffie-Hellman
\* property of the curve: a * B = b * A
SharedSecrets ==
  (<<XPrivateA, XPublicB>> :> <<77, 1>>) @@ (<<XPrivateB, XPublicA>> :> <<77, 1>>)
  @@ (<<XPrivateA, XPublicA>> :> <<78, 2>>) @@ (<<XPrivateB, XPublicB>> :> <<79, 3>>)

\* the scalar multiplication n * p of two raw keys
X25519(n, p) ==
  IF <<n, p>> \in DOMAIN SharedSecrets THEN SharedSecrets[<<n, p>>]
  ELSE IF p = XLowOrder THEN <<0, 0>>
  ELSE <<n[1], p[2]>>

\* a Uint8Array of the length of a raw key
IsRawKey(bytes) == Len(bytes) = Len(XPublicA)

\* the value a decode handed on: its bytes, or undefined
Value(r) == IF r.st = "undefined" THEN Undefined ELSE r.val

\* an outcome together with the invocations of the primitive, each the pair
\* of its arguments in the order they were passed
Invoking(r, invoked) ==
  [st |-> r.st, val |-> r.val, err |-> r.err, invoked |-> invoked]

ErrUnexpectedType ==
  [name |-> "TypeError", message |-> "unexpected type, use Uint8Array"]
ErrBadNSize == [name |-> "Error", message |-> "bad n size"]
ErrBadPSize == [name |-> "Error", message |-> "bad p size"]

\* nacl.scalarMult(n, p): checks the types and the sizes of its arguments
ScalarMult(n, p) ==
  IF n = Undefined \/ p = Undefined THEN Throw(ErrUnexpectedType)
  ELSE IF ~IsRawKey(n) THEN Throw(ErrBadNSize)
  ELSE IF ~IsRawKey(p) THEN Throw(ErrBadPSize)
  ELSE Ok(X25519(n, p))

\* crypto-nacl.js deriveSecret({privateKey, remotePublicKey})
DeriveSecretNacl(privateKey, remotePublicKey) ==
  Invoking(ScalarMult(privateKey, remotePublicKey),
           << <<privateKey, remotePublicKey>> >>)

ErrConcat ==
  [name |-> "TypeError",
   message |-> "The \"list[1]\" argument must be an instance of Buffer or Uint8Array."]
ErrDer == [name |-> "Error", message |-> "Failed to read asymmetric key"]
ErrDerivation == [name |-> "Error", message |-> "diffieHellman failed"]

\* crypto.diffieHellman({privateKey, publicKey}): whether a low-order
\* public key is rejected is the library's choice
DiffieHellman(privateKey, publicKey, reject) ==
  IF publicKey = XLowOrder /\ reject
  THEN Throw(ErrDerivation)
  ELSE Ok(X25519(privateKey, publicKey))

\* deriveSecretNative({privateKey, remotePublicKey}): each key is wrapped in
\* its DER prefix and parsed before the primitive is called
DeriveSecretNative(privateKey, remotePublicKey, reject) ==
  IF privateKey = Undefined THEN Invoking(Throw(ErrConcat), <<>>)
  ELSE IF ~IsRawKey(privateKey) THEN Invoking(Throw(ErrDer), <<>>)
  ELSE IF remotePublicKey = Undefined THEN Invoking(Throw(ErrConcat), <<>>)
  ELSE IF ~IsRawKey(remotePublicKey) THEN Invoking(Throw(ErrDer), <<>>)
  ELSE Invoking(DiffieHellman(privateKey, remotePublicKey, reject),
                << <<privateKey, remotePublicKey>> >>)

\* the deriveSecret the module exports
BackendDeriveSecret(privateKey, remotePublicKey, reject) ==
  IF backend = "native"
  THEN DeriveSecretNative(privateKey, remotePublicKey, reject)
  ELSE DeriveSecretNacl(privateKey, remotePublicKey)

\* the remote public key is passed as the scalar
DeriveSecretSwapped(this, publicKey, reject) ==
  LET remotePublicKey == Decode(publicKey.publicKeyBase58)
      privateKey == Decode(this.privateKeyBase58)
  IN  IF remotePublicKey.st = "throw" THEN Invoking(remotePublicKey, <<>>)
      ELSE IF privateKey.st = "throw" THEN Invoking(privateKey, <<>>)
      ELSE BackendDeriveSecret(Value(remotePublicKey), Value(privateKey), reject)

\* deriveSecret rejects a low-order public key itself
DeriveSecretChecksPoint(this, publicKey, reject) ==
  LET remotePublicKey == Decode(publicKey.publicKeyBase58)
      privateKey == Decode(this.privateKeyBase58)
  IN  IF remotePublicKey.st = "throw" THEN Invoking(remotePublicKey, <<>>)
      ELSE IF privateKey.st = "throw" THEN Invoking(privateKey, <<>>)
      ELSE IF Value(remotePublicKey) = XLowOrder
      THEN Invoking(Throw(ErrDerivation), <<>>)
      ELSE BackendDeriveSecret(Value(privateKey), Value(remotePublicKey), reject)

\* async deriveSecret({publicKey})
DeriveSecret(this, publicKey, reject) ==
  LET remotePublicKey == Decode(publicKey.publicKeyBase58)
      privateKey == Decode(this.privateKeyBase58)
  IN  IF remotePublicKey.st = "throw" THEN Invoking(remotePublicKey, <<>>)
      ELSE IF privateKey.st = "throw" THEN Invoking(privateKey, <<>>)
      ELSE BackendDeriveSecret(Value(privateKey), Value(remotePublicKey), reject)

(***************************************************************************)
(* The state: two key pair variables of a caller, the last call with its  *)
(* argument and its outcome, and the deriveSecret calls whose promise was  *)
(* not awaited yet.                                                        *)
(***************************************************************************)
Slots == {"local", "remote"}

\* a variable that holds no key pair yet
NoKey == [none |-> TRUE]

\* the most deriveSecret calls in flight at a time
MaxCalls == 2

\* the deriveSecret calls a caller starts without awaiting the one before
Calls == 1..MaxCalls

\* a call that was not started
IdleCall ==
  [this |-> NoKey, publicKey |-> NoKey, reject |-> FALSE, phase |-> "idle",
   result |-> Invoking(Undef, <<>>)]

NoCall == [st |-> "return", err |-> NoError, arg |-> NoOptions,
           invoked |-> <<>>, op |-> "none", slot |-> "local", ret |-> NoKey]

\* the call op on the variable slot with argument arg had the outcome r;
\* invoked lists the invocations of the scalar multiplication it made
Called(op, slot, arg, r) ==
  [st |-> IF r.st = "throw" THEN "throw" ELSE "return",
   err |-> r.err,
   arg |-> arg, invoked |-> <<>>, op |-> op, slot |-> slot,
   ret |-> IF r.st = "throw" THEN NoKey ELSE r.val]

\* slot = <call that constructs>: the variable is assigned unless the call
\* throws
Assigned(slot, r) ==
  IF r.st = "throw" THEN keys ELSE [keys EXCEPT ![slot] = r.val]

Malformed == <<"0", "l">>
Controller == <<"did:example:1234">>
SomeId == <<"urn:key:1">>

PublicKeyOptions == {Absent, <<>>, Encode(XPublicA), Encode(XPublicB), Malformed}
PrivateKeyOptions == {Absent, Encode(XPrivateA), Encode(XPrivateB)}
ControllerOptions == {Absent, Controller}
IdOptions == {Absent, <<>>, SomeId}

\* a revoked timestamp
Revoked == <<"2021-01-01T00:00:00Z">>

\* options of a revoked key pair
RevokedOptions ==
  { [NoOptions EXCEPT !.controller = c, !.revoked = Revoked,
                      !.publicKeyBase58 = Encode(XPublicA),
                      !.privateKeyBase58 = q] :
      c \in ControllerOptions, q \in {Absent, Encode(XPrivateA)} }

\* options that carry the type of another suite
TypedOptions ==
  { [NoOptions EXCEPT !.type = <<"Ed25519VerificationKey2018">>,
                      !.controller = c,
                      !.publicKeyBase58 = Encode(XPublicA),
                      !.privateKeyBase58 = q] :
      c \in ControllerOptions, q \in {Absent, Encode(XPrivateA)} }

Options ==
  { [NoOptions EXCEPT !.id = i, !.controller = c,
                      !.publicKeyBase58 = p, !.privateKeyBase58 = q] :
      i \in IdOptions, c \in ControllerOptions,
      p \in PublicKeyOptions, q \in PrivateKeyOptions }
  \cup RevokedOptions \cup TypedOptions

\* the options of the peer key pair
PeerOptions ==
  { [NoOptions EXCEPT !.controller = c,
                      !.publicKeyBase58 = p, !.privateKeyBase58 = q] :
      c \in ControllerOptions,
      p \in {Encode(XPublicA), Encode(XPublicB), Malformed},
      q \in {Absent, Encode(XPrivateB)} }

\* Ed25519VerificationKey2018 sources: base58 fields, the private key in
\* its seed-only form
Ed2018Sources ==
  { [controller |-> c, publicKeyBase58 |-> Encode(k[1]),
     privateKeyBase58 |-> IF p THEN Encode(k[2]) ELSE Undefined] :
      c \in {Undefined, Controller},
      k \in {<<EdPublicA, EdSeedA>>, <<EdPublicB, EdSeedB>>, <<XPublicA, EdSeedA>>},
      p \in BOOLEAN }

\* Ed25519VerificationKey2020 sources: multibase fields
Ed2020Sources ==
  { [controller |-> c,
     publicKeyMultibase |-> <<"z">> \o Encode(h \o k[1]),
     privateKeyMultibase |->
       IF p THEN <<"z">> \o Encode(MULTICODEC_ED25519_PRIV_HEADER \o k[2])
       ELSE Undefined] :
      c \in {Undefined, Controller},
      k \in {<<EdPublicA, EdSeedA>>, <<EdPublicB, EdSeedB>>},
      h \in {MULTICODEC_ED25519_PUB_HEADER, FingerprintHeader},
      p \in BOOLEAN }

\* fingerprints passed to fromFingerprint and verifyFingerprint
Fingerprints ==
  { <<"z">> \o Encode(h \o k) :
      h \in {FingerprintHeader, MULTICODEC_ED25519_PUB_HEADER},
      k \in {XPublicA, XPublicB} }
  \cup {Encode(FingerprintHeader \o XPublicA), <<"z">> \o Malformed, <<>>,
        Undefined, NonString}

FingerprintArgs ==
  {FingerprintArg("object", f) : f \in Fingerprints \cup {Absent}}
  \cup {FingerprintArg("none", Absent), FingerprintArg("null", Absent)}

ExportArgs ==
  {ExportArg("object", a, b, c) :
     a \in {Absent, JsTrue}, b \in {Absent, JsTrue}, c \in {Absent, JsTrue}}
  \cup {ExportArg("object", JsFalse, JsFalse, Absent),
        ExportArg("object", JsTrue, JsFalse, Absent),
        ExportArg("none", Absent, Absent, Absent)}

Init ==
  /\ keys = [s \in Slots |-> NoKey]
  /\ last = NoCall
  /\ backend \in Backends
  /\ calls = [i \in Calls |-> IdleCall]

\* slot = new X25519KeyAgreementKey2019(options)
New(slot, options) ==
  /\ keys[slot] = NoKey
  /\ \E r \in {Constructor(options)} :
       /\ keys' = Assigned(slot, r)
       /\ last' = Called("new", slot, options, r)
       /\ UNCHANGED <<backend, calls>>

\* slot = await X25519KeyAgreementKey2019.from(options)
CallFrom(slot, options) ==
  /\ keys[slot] = NoKey
  /\ \E r \in {From(options)} :
       /\ keys' = Assigned(slot, r)
       /\ last' = Called("from", slot, options, r)
       /\ UNCHANGED <<backend, calls>>

\* slot = await X25519KeyAgreementKey2019.generate(options)
CallGenerate(slot, options, pair) ==
  /\ keys[slot] = NoKey
  /\ \E r \in {Generate(options, pair)} :
       /\ keys' = Assigned(slot, r)
       /\ last' = Called("generate", slot,
                         [options |-> options, pair |-> pair], r)
       /\ UNCHANGED <<backend, calls>>

\* slot = X25519KeyAgreementKey2019.fromEd25519VerificationKey2018({keyPair})
CallFromEd2018(slot, keyPair) ==
  /\ keys[slot] = NoKey
  /\ \E r \in {FromEd25519VerificationKey2018(keyPair)} :
       /\ keys' = Assigned(slot, r)
       /\ last' = Called("fromEd25519VerificationKey2018", slot, keyPair, r)
       /\ UNCHANGED <<backend, calls>>

\* slot = X25519KeyAgreementKey2019.fromEd25519VerificationKey2020({keyPair})
CallFromEd2020(slot, keyPair) ==
  /\ keys[slot] = NoKey
  /\ \E r \in {FromEd25519VerificationKey2020(keyPair)} :
       /\ keys' = Assigned(slot, r)
       /\ last' = Called("fromEd25519VerificationKey2020", slot, keyPair, r)
       /\ UNCHANGED <<backend, calls>>

\* slot = X25519KeyAgreementKey2019.fromFingerprint(arg)
CallFromFingerprint(slot, arg) ==
  /\ keys[slot] = NoKey
  /\ \E r \in {FromFingerprint(arg)} :
       /\ keys' = Assigned(slot, r)
       /\ last' = Called("fromFingerprint", slot, arg, r)
       /\ UNCHANGED <<backend, calls>>

\* keys[slot].fingerprint()
CallFingerprint(slot) ==
  /\ keys[slot] # NoKey
  /\ last' = Called("fingerprint", slot, NoOptions, Fingerprint(keys[slot]))
  /\ UNCHANGED <<keys, backend, calls>>

\* keys[slot].verifyFingerprint(arg)
CallVerifyFingerprint(slot, arg) ==
  /\ keys[slot] # NoKey
  /\ last' = Called("verifyFingerprint", slot, arg,
                    VerifyFingerprint(keys[slot], arg))
  /\ UNCHANGED <<keys, backend, calls>>

\* keys[slot].verifyFingerprint({fingerprint: keys[slot].fingerprint()})
CallVerifyOwnFingerprint(slot) ==
  /\ keys[slot] # NoKey
  /\ LET fingerprint == Fingerprint(keys[slot])
         arg == FingerprintArg("object", fingerprint.val)
     IN  /\ fingerprint.st = "ok"
         /\ last' = Called("verifyFingerprint", slot, arg,
                           VerifyFingerprint(keys[slot], arg))
  /\ UNCHANGED <<keys, backend, calls>>

\* slot = X25519KeyAgreementKey2019.fromFingerprint(
\*   {fingerprint: keys[from].fingerprint()})
CallFromOwnFingerprint(slot, from) ==
  /\ keys[from] # NoKey
  /\ keys[slot] = NoKey
  /\ LET fingerprint == Fingerprint(keys[from])
         arg == FingerprintArg("object", fingerprint.val)
         r == FromFingerprint(arg)
     IN  /\ fingerprint.st = "ok"
         /\ keys' = Assigned(slot, r)
         /\ last' = Called("fromFingerprint", slot, arg, r)
         /\ UNCHANGED <<backend, calls>>

\* export deletes the private key it does not export
CallExportDeletesPrivate(slot, arg) ==
  /\ keys[slot] # NoKey
  /\ last' = Called("export", slot, arg, Export(keys[slot], arg))
  /\ keys' = [keys EXCEPT ![slot].privateKeyBase58 = Undefined]
  /\ UNCHANGED <<backend, calls>>

\* keys[slot].export(arg)
CallExport(slot, arg) ==
  /\ keys[slot] # NoKey
  /\ last' = Called("export", slot, arg, Export(keys[slot], arg))
  /\ UNCHANGED <<keys, backend, calls>>

Next ==
  \/ \E o \in Options : New("local", o)
  \/ \E o \in PeerOptions : New("remote", o)
  \/ \E o \in Options : CallFrom("local", o)
  \/ \E o \in Options, g \in GeneratedPairs : CallGenerate("local", o, g)
  \/ \E k \in Ed2018Sources : CallFromEd2018("local", k)
  \/ \E k \in Ed2020Sources : CallFromEd2020("local", k)
  \/ \E a \in FingerprintArgs : CallFromFingerprint("local", a)
  \/ CallFingerprint("local")
  \/ \E a \in FingerprintArgs : CallVerifyFingerprint("local", a)
  \/ \E a \in ExportArgs : CallExport("local", a)

Spec == Init /\ [][Next]_vars

(***************************************************************************)
(* The fingerprint functions on drawn inputs: the initial state holds a    *)
(* key pair constructed from a drawn public key, and one call of           *)
(* fingerprint, fromFingerprint or verifyFingerprint is applied to it.     *)
(***************************************************************************)
MaxKeyLen == 2

ByteSamples == {0, 1, 236}

\* the byte sequences over the samples of length at most n
BytesUpTo(n) == UNION { [1..m -> ByteSamples] : m \in 0..n }

\* the public key of the tests (mockKey.publicKeyBase58), 32 bytes
MockPublicKey ==
  <<118, 98, 178, 186, 217, 245, 197, 31, 116, 174, 38, 219, 139, 171,
    205, 17, 227, 187, 67, 226, 31, 229, 136, 20, 208, 45, 24, 68, 229,
    168, 67, 23>>

\* the fingerprint the tests expect of it, after 'did:example:1234#'
MockFingerprint ==
  << "z", "6", "L", "S", "j", "e", "J", "Z", "a", "U", "H", "M", "v", "E",
     "K", "W", "7", "t", "E", "J", "X", "V", "4", "P", "r", "S", "m", "6",
     "1", "N", "z", "x", "x", "H", "h", "D", "X", "F", "6", "z", "H", "n",
     "V", "t", "D", "u", "9", "g" >>

PublicKeys == BytesUpTo(MaxKeyLen) \cup {MockPublicKey}

\* the stored publicKeyBase58 values: encoded keys, a key with whitespace
\* in it, a key of whitespace only, a string that is not base58 and a
\* non-string
StoredPublicKeys ==
  {Encode(k) : k \in PublicKeys}
  \cup {<<"2", " ", "1">>, <<" ">>, Malformed, NonString}

\* bytes with the byte at position i replaced by b
Replace(bytes, i, b) == [bytes EXCEPT ![i] = b]

\* the fingerprint buffer of the 32-byte key with one byte changed: a byte
\* of the header, or the first or the last byte of the key
MockMutations ==
  LET buffer == FingerprintHeader \o MockPublicKey
  IN  { Replace(buffer, i, (buffer[i] + 1) % 256) :
          i \in {1, 2, 3, Len(buffer)} }

DrawnFingerprints ==
  { <<"z">> \o Encode(b) :
      b \in BytesUpTo(MaxKeyLen + 2) \cup MockMutations }
  \cup {MockFingerprint, Encode(FingerprintHeader \o XPublicA),
        <<"z">> \o Malformed, <<"z", "2", " ", "1">>, <<>>,
        Undefined, Null, NonString}

DrawnFingerprintArgs ==
  {FingerprintArg("object", f) : f \in DrawnFingerprints \cup {Absent}}
  \cup {FingerprintArg("none", Absent), FingerprintArg("null", Absent)}

\* the fingerprint functions do not reach the backend: it is the native one
InitFingerprint ==
  /\ \E p \in StoredPublicKeys :
       LET key == Constructor([NoOptions EXCEPT !.publicKeyBase58 = p])
       IN  /\ key.st = "ok"
           /\ keys = [s \in Slots |-> IF s = "local" THEN key.val ELSE NoKey]
  /\ last = NoCall
  /\ backend = "native"
  /\ calls = [i \in Calls |-> IdleCall]

NextFingerprint ==
  \/ last = NoCall /\ CallFingerprint("local")
  \/ last = NoCall /\ \E a \in DrawnFingerprintArgs :
                        CallVerifyFingerprint("local", a)
  \/ last = NoCall /\ \E a \in DrawnFingerprintArgs :
                        CallFromFingerprint("remote", a)
  \/ last = NoCall /\ CallVerifyOwnFingerprint("local")
  \/ last = NoCall /\ CallFromOwnFingerprint("remote", "local")

SpecFingerprint == InitFingerprint /\ [][NextFingerprint]_vars

(***************************************************************************)
(* Key agreement between two key pairs: each variable is assigned a        *)
(* generated or constructed key pair, or a key pair reconstructed from the *)
(* other's export, and each derives a secret with the other.               *)
(***************************************************************************)
\* the options object an exported record is when it is passed to from()
AsOptions(exported) ==
  [f \in OptionFields |-> IF f \in DOMAIN exported THEN exported[f] ELSE Absent]

\* slot = await X25519KeyAgreementKey2019.from(
\*   keys[from].export({publicKey: true, privateKey: true}))
CallFromExported(slot, from) ==
  /\ keys[from] # NoKey
  /\ keys[slot] = NoKey
  /\ \E exported \in {Export(keys[from], ExportArg("object", JsTrue, JsTrue, Absent))} :
       \E r \in {From(AsOptions(exported.val))} :
           /\ keys' = Assigned(slot, r)
           /\ last' = Called("from", slot, AsOptions(exported.val), r)
           /\ UNCHANGED <<backend, calls>>

\* await keys[slot].deriveSecret({publicKey: keys[peer]}); reject is the
\* primitive's choice on a low-order public key
CallDeriveSecret(slot, peer, reject) ==
  /\ keys[slot] # NoKey
  /\ keys[peer] # NoKey
  /\ \E r \in {DeriveSecret(keys[slot], keys[peer], reject)} :
       /\ last' = [Called("deriveSecret", slot, [publicKey |-> keys[peer]], r)
                     EXCEPT !.invoked = r.invoked]
       /\ UNCHANGED <<keys, backend, calls>>

\* key pairs for the agreement: matched, mismatched, public-only, with a
\* malformed or a low-order key
AgreementOptions ==
  { [NoOptions EXCEPT !.publicKeyBase58 = p, !.privateKeyBase58 = q] :
      p \in {Encode(XPublicA), Encode(XPublicB), Encode(XLowOrder), Malformed},
      q \in {Absent, Encode(XPrivateA), Malformed} }

\* options of generate: none, an id, a controller, a revoked timestamp
GenerateOptions ==
  { [NoOptions EXCEPT !.id = i, !.controller = c, !.revoked = v] :
      i \in IdOptions, c \in ControllerOptions, v \in {Absent, Revoked} }

InitAgreement ==
  /\ keys = [s \in Slots |-> NoKey]
  /\ last = NoCall
  /\ backend \in Backends
  /\ calls = [i \in Calls |-> IdleCall]

NextAgreement ==
  \/ \E o \in GenerateOptions, g \in GeneratedPairs : CallGenerate("local", o, g)
  \/ \E g \in GeneratedPairs : CallGenerate("remote", NoOptions, g)
  \/ \E s \in Slots, o \in AgreementOptions : New(s, o)
  \/ CallFromExported("remote", "local")
  \/ \E reject \in BOOLEAN : CallDeriveSecret("local", "remote", reject)
  \/ \E reject \in BOOLEAN : CallDeriveSecret("remote", "local", reject)
  \/ \E s \in Slots : CallFingerprint(s)
  \/ \E s \in Slots : CallVerifyOwnFingerprint(s)
  \/ \E s \in Slots : CallVerifyFingerprint(s, FingerprintArg("none", Absent))
  \/ \E s \in Slots : CallExport(s, ExportArg("object", JsTrue, JsTrue, Absent))
  \/ \E s \in Slots : CallExport(s, ExportArg("none", Absent, Absent, Absent))

SpecAgreement == InitAgreement /\ [][NextAgreement]_vars

(***************************************************************************)
(* The conversions from Ed25519: the variables are assigned the conversion *)
(* of a drawn source key pair by one of the two entry points, the same     *)
(* source twice; the static conversion functions, which read no state, are *)
(* called on drawn keys before any key pair is held.                       *)
(***************************************************************************)
\* the multibase form of a key: 'z' and the base58 of header ++ bytes
Multibase(header, bytes) == <<"z">> \o Encode(header \o bytes)

\* Ed25519VerificationKey2018 sources of full length, the private key as
\* the 64-byte secret key or as the seed alone, and one that is no base58
Ed2018FullSources ==
  { [controller |-> c, publicKeyBase58 |-> Encode(EdPublicFull),
     privateKeyBase58 |-> q] :
      c \in {Undefined, Controller},
      q \in {Undefined, Encode(EdSecretFull), Encode(EdSeedFull)} }
  \cup { [controller |-> Controller, publicKeyBase58 |-> Malformed,
          privateKeyBase58 |-> Undefined] }

\* Ed25519VerificationKey2020 sources that are missing a part or are
\* encoded wrongly, and one of full length
Ed2020OddSources ==
  { [controller |-> Controller, publicKeyMultibase |-> p,
     privateKeyMultibase |-> Undefined] :
      p \in {Undefined, <<>>, <<"z">>, <<"z">> \o Malformed,
             Encode(MULTICODEC_ED25519_PUB_HEADER \o EdPublicA),
             Multibase(<<237>>, <<>>),
             Multibase(MULTICODEC_ED25519_PUB_HEADER, XPublicA)} }
  \cup
  { [controller |-> Controller,
     publicKeyMultibase |-> Multibase(MULTICODEC_ED25519_PUB_HEADER, p),
     privateKeyMultibase |-> q] :
      p \in {EdPublicA, XPublicA},
      q \in {<<>>, <<"z">>, <<"z">> \o Malformed,
             Encode(MULTICODEC_ED25519_PRIV_HEADER \o EdSeedA),
             Multibase(<<128>>, <<>>),
             Multibase(MULTICODEC_ED25519_PUB_HEADER, EdSeedA)} }
  \cup
  { [controller |-> Undefined,
     publicKeyMultibase |-> Multibase(MULTICODEC_ED25519_PUB_HEADER, EdPublicFull),
     privateKeyMultibase |-> Multibase(MULTICODEC_ED25519_PRIV_HEADER, EdSecretFull)] }

\* Ed25519 private keys as base58: 64-byte secret keys with the same seed
\* and with another, the seeds alone, the short samples, and no base58
EdPrivateKeys ==
  { Encode(k) : k \in {EdSecretFull, EdSeedFull \o XPublicFull, EdSeedFull,
                       EdPublicFull \o EdSeedFull, EdPublicFull,
                       EdSeedA, EdSeedB} }
  \cup {Malformed, <<>>, Undefined}

\* Ed25519 public keys as base58
EdPublicKeys ==
  { Encode(k) : k \in {EdPublicA, EdPublicB, EdPublicFull, XPublicA} }
  \cup {Malformed, Undefined}

\* X25519KeyAgreementKey2019.convertFromEdPublicKey({publicKeyBase58})
CallConvertFromEdPublicKey(publicKeyBase58) ==
  /\ last' = Called("convertFromEdPublicKey", "local", publicKeyBase58,
                    ConvertFromEdPublicKey(publicKeyBase58))
  /\ UNCHANGED <<keys, backend, calls>>

\* X25519KeyAgreementKey2019.convertFromEdPrivateKey({privateKeyBase58})
CallConvertFromEdPrivateKey(privateKeyBase58) ==
  /\ last' = Called("convertFromEdPrivateKey", "local", privateKeyBase58,
                    ConvertFromEdPrivateKey(privateKeyBase58))
  /\ UNCHANGED <<keys, backend, calls>>

InitConvert ==
  /\ keys = [s \in Slots |-> NoKey]
  /\ last = NoCall
  /\ backend \in Backends
  /\ calls = [i \in Calls |-> IdleCall]

\* the two Ed25519 entry points
EdOps == {"fromEd25519VerificationKey2018", "fromEd25519VerificationKey2020"}

\* the caller converts a drawn source into local, and may convert the same
\* source once more into remote
NextConvert ==
  \/ \E k \in Ed2018Sources \cup Ed2018FullSources : CallFromEd2018("local", k)
  \/ \E k \in Ed2020Sources \cup Ed2020OddSources : CallFromEd2020("local", k)
  \/ last.op = "fromEd25519VerificationKey2018" /\ last.slot = "local"
       /\ CallFromEd2018("remote", last.arg)
  \/ last.op = "fromEd25519VerificationKey2020" /\ last.slot = "local"
       /\ CallFromEd2020("remote", last.arg)
  \/ keys["local"] = NoKey
       /\ \E k \in EdPublicKeys : CallConvertFromEdPublicKey(k)
  \/ keys["local"] = NoKey
       /\ \E k \in EdPrivateKeys : CallConvertFromEdPrivateKey(k)

SpecConvert == InitConvert /\ [][NextConvert]_vars

(***************************************************************************)
(* Several deriveSecret calls in flight on one key pair.  deriveSecret is  *)
(* an async method without an await: the call decodes the two keys and     *)
(* runs the primitive before it returns its promise, and the caller that   *)
(* awaits the promise is resumed in a later turn, after any number of      *)
(* other calls were started or resumed.                                    *)
(***************************************************************************)

\* the remote key pairs passed: public-only, with a raw key, a low-order
\* key and a key that is not base58
ConcurrentPeers ==
  { Constructor([NoOptions EXCEPT !.publicKeyBase58 = p]).val :
      p \in {Encode(XPublicA), Encode(XPublicB), Encode(XLowOrder), Malformed} }

\* const promise = keys.local.deriveSecret({publicKey}), not awaited yet:
\* the body runs to its return; this is the key pair as the call found it
StartDeriveSecret(i, publicKey, reject) ==
  /\ keys["local"] # NoKey
  /\ calls[i].phase = "idle"
  /\ \A j \in Calls : j < i => calls[j].phase # "idle"
  /\ \E r \in {DeriveSecret(keys["local"], publicKey, reject)} :
       calls' = [calls EXCEPT ![i] =
                   [this |-> keys["local"], publicKey |-> publicKey,
                    reject |-> reject, phase |-> "pending", result |-> r]]
  /\ UNCHANGED <<keys, last, backend>>

\* the remote key is kept in a variable the calls share: a call is resumed
\* with the secret of the remote key of the call started last
SettleWithLatestKey(i) ==
  /\ calls[i].phase = "pending"
  /\ calls' = [calls EXCEPT ![i].phase = "settled"]
  /\ LET latest == CHOOSE j \in Calls :
                     /\ calls[j].phase # "idle"
                     /\ \A k \in Calls : k > j => calls[k].phase = "idle"
         r == DeriveSecret(keys["local"], calls[latest].publicKey,
                           calls[i].reject)
     IN  last' = [Called("deriveSecret", "local",
                         [publicKey |-> calls[i].publicKey], r)
                    EXCEPT !.invoked = r.invoked]
  /\ UNCHANGED <<keys, backend>>

\* await promise: the caller of call i is resumed with the secret, or with
\* the error thrown
SettleDeriveSecret(i) ==
  /\ calls[i].phase = "pending"
  /\ calls' = [calls EXCEPT ![i].phase = "settled"]
  /\ last' = [Called("deriveSecret", "local",
                     [publicKey |-> calls[i].publicKey], calls[i].result)
                EXCEPT !.invoked = calls[i].result.invoked]
  /\ UNCHANGED <<keys, backend>>

InitConcurrent ==
  /\ \E q \in {Absent, Encode(XPrivateA), Malformed} :
       keys = [s \in Slots |->
                 IF s = "local"
                 THEN Constructor([NoOptions EXCEPT
                        !.publicKeyBase58 = Encode(XPublicA),
                        !.privateKeyBase58 = q]).val
                 ELSE NoKey]
  /\ last = NoCall
  /\ backend \in Backends
  /\ calls = [i \in Calls |-> IdleCall]

NextConcurrent ==
  \/ \E i \in Calls, k \in ConcurrentPeers :
       \E reject \in IF k.publicKeyBase58 = Encode(XLowOrder)
                     THEN BOOLEAN ELSE {FALSE} :
         StartDeriveSecret(i, k, reject)
  \/ \E i \in Calls : SettleDeriveSecret(i)

\* every promise that is awaited is settled: the job queue runs each
\* reaction of a settled promise
SpecConcurrent ==
  /\ InitConcurrent
  /\ [][NextConcurrent]_vars
  /\ \A i \in Calls : WF_vars(SettleDeriveSecret(i))

(***************************************************************************)
(* Properties of the fingerprint functions, under SpecFingerprint.         *)
(***************************************************************************)
\* the fingerprint the last fromFingerprint or verifyFingerprint call got
PassedFingerprint ==
  IF last.arg.given = "object" THEN Get(last.arg, "fingerprint") ELSE Undefined

\* the last call passed the fingerprint() of the key pair in local
PassedOwnFingerprint ==
  /\ last.arg.given = "object"
  /\ Fingerprint(keys["local"]).st = "ok"
  /\ last.arg.fingerprint = Fingerprint(keys["local"]).val

\* the bytes of the public key of the key pair in local
LocalPublicKey == Decode(keys["local"].publicKeyBase58)

\* the bytes a 'z'-prefixed fingerprint string decodes to
PassedBuffer == Decode(Tail(PassedFingerprint))

\* the fingerprint is a string that starts with 'z'
PassedIsMultibase ==
  /\ PassedFingerprint \notin {Undefined, Null, NonString, <<>>}
  /\ PassedFingerprint[1] = "z"

\* C1: fromFingerprint of the fingerprint of a public key k succeeds and
\* returns a key pair whose public key is exactly k.
FingerprintRoundTrip ==
  (last.op = "fromFingerprint" /\ PassedOwnFingerprint)
    => /\ last.st = "return"
       /\ keys["remote"] = last.ret
       /\ Decode(last.ret.publicKeyBase58) = LocalPublicKey
       /\ last.ret.publicKeyBase58 = Encode(LocalPublicKey.val)

\* C1 witness: the fingerprint of the 32-byte key of the tests was turned
\* back into a key pair.
FingerprintRoundTripWitness ==
  /\ last.op = "fromFingerprint"
  /\ last.st = "return"
  /\ PassedFingerprint = MockFingerprint
  /\ LocalPublicKey = Ok(MockPublicKey)

\* C2: a key pair verifies its own fingerprint: the result is {valid: true},
\* with no error field.
VerifyOwnFingerprint ==
  (last.op = "verifyFingerprint" /\ PassedOwnFingerprint)
    => /\ last.st = "return"
       /\ last.ret = [valid |-> TRUE]
       /\ DOMAIN last.ret = {"valid"}

\* C2 witness: the key pair of the 32-byte key of the tests verified its own
\* fingerprint.
VerifyOwnFingerprintWitness ==
  /\ last.op = "verifyFingerprint"
  /\ PassedFingerprint = MockFingerprint
  /\ LocalPublicKey = Ok(MockPublicKey)
  /\ last.st = "return"
  /\ last.ret.valid

\* a and b have the same length and differ in exactly one position
SingleByteDiff(a, b) ==
  /\ Len(a) = Len(b)
  /\ Cardinality({i \in 1..Len(a) : a[i] # b[i]}) = 1

\* C3: a fingerprint whose decoded bytes differ from 0xec, 0x01, public key
\* in a single position, header or payload, is reported invalid with an
\* error, and valid is true only for exactly those bytes.
MutatedFingerprintRejected ==
  last.op = "verifyFingerprint" =>
    /\ (/\ PassedIsMultibase
        /\ PassedBuffer.st = "ok"
        /\ LocalPublicKey.st = "ok"
        /\ SingleByteDiff(PassedBuffer.val, <<236, 1>> \o LocalPublicKey.val))
         => /\ last.st = "return"
            /\ last.ret.valid = FALSE
            /\ "error" \in DOMAIN last.ret
    /\ (last.st = "return" /\ last.ret.valid)
         => /\ PassedIsMultibase
            /\ PassedBuffer.st = "ok"
            /\ LocalPublicKey.st = "ok"
            /\ PassedBuffer.val = <<236, 1>> \o LocalPublicKey.val

\* C3 witness: a fingerprint with one header byte changed was rejected.
MutatedFingerprintRejectedWitness ==
  /\ last.op = "verifyFingerprint"
  /\ PassedIsMultibase
  /\ PassedBuffer.st = "ok"
  /\ LocalPublicKey.st = "ok"
  /\ SingleByteDiff(PassedBuffer.val, <<236, 1>> \o LocalPublicKey.val)
  /\ PassedBuffer.val[2] # 1
  /\ last.st = "return"
  /\ ~last.ret.valid

\* C4: verifyFingerprint never throws: every call returns a result object.
VerifyFingerprintNeverThrows ==
  last.op = "verifyFingerprint" => last.st = "return"

\* the header of the decoded fingerprint is not 0xec, 0x01
PassedHeaderWrong ==
  \/ Len(PassedBuffer.val) < 2
  \/ PassedBuffer.val[1] # 236
  \/ PassedBuffer.val[2] # 1

\* the last call returned {valid: false, error} with this error
ReturnedError(e) ==
  /\ last.st = "return"
  /\ last.ret = [valid |-> FALSE, error |-> e]

\* C5 as stated: without the 'z' prefix NotMultibaseEncoded; otherwise a
\* remainder that fails to decode or has a wrong header gives a decode
\* error, which is neither of the other two kinds; otherwise a payload
\* that differs from the public key gives FingerprintMismatch.
VerifyClassificationAsStated ==
  (last.op = "verifyFingerprint" /\ last.arg.given # "null") =>
    IF ~PassedIsMultibase
    THEN ReturnedError(ErrNotMultibase)
    ELSE IF PassedBuffer.st # "ok" \/ PassedHeaderWrong
    THEN /\ last.st = "return"
         /\ last.ret.valid = FALSE
         /\ last.ret.error \notin {ErrNotMultibase, ErrFingerprintMismatch}
    ELSE (/\ LocalPublicKey.st = "ok"
          /\ SubSeq(PassedBuffer.val, 3, Len(PassedBuffer.val)) #
               LocalPublicKey.val)
           => ReturnedError(ErrFingerprintMismatch)

\* C5 as amended: without the 'z' prefix NotMultibaseEncoded; otherwise a
\* stored public key that is no string gives the TypeError of decode;
\* otherwise a remainder that is not base58 gives no result, the call
\* throws; otherwise a wrong header gives FingerprintMismatch, as a payload
\* that differs from the public key does; otherwise the result is valid.
VerifyClassification ==
  (last.op = "verifyFingerprint" /\ last.arg.given # "null") =>
    IF ~PassedIsMultibase
    THEN ReturnedError(ErrNotMultibase)
    ELSE IF LocalPublicKey.st = "throw"
    THEN ReturnedError(TypeErrorInput)
    ELSE IF PassedBuffer.st = "undefined"
    THEN last.st = "throw"
    ELSE IF PassedHeaderWrong
    THEN ReturnedError(ErrFingerprintMismatch)
    ELSE IF LocalPublicKey.st = "undefined"
    THEN last.st = "throw"
    ELSE IF SubSeq(PassedBuffer.val, 3, Len(PassedBuffer.val)) #
              LocalPublicKey.val
    THEN ReturnedError(ErrFingerprintMismatch)
    ELSE last.st = "return" /\ last.ret = [valid |-> TRUE]

\* C5 witness: a fingerprint with a wrong header was reported as
\* FingerprintMismatch.
VerifyClassificationWitness ==
  /\ last.op = "verifyFingerprint"
  /\ PassedIsMultibase
  /\ PassedBuffer.st = "ok"
  /\ PassedHeaderWrong
  /\ ReturnedError(ErrFingerprintMismatch)

(***************************************************************************)
(* Properties of construction and export, under Spec.                      *)
(***************************************************************************)
ConstructOps ==
  {"new", "from", "generate", "fromEd25519VerificationKey2018",
   "fromEd25519VerificationKey2020"}

\* the options the last constructor, from or generate call was given
PassedOptions == IF last.op = "generate" THEN last.arg.options ELSE last.arg

\* undefined or '': the property is not supplied
Missing(v) == v \in {Undefined, <<>>}

\* C6: the constructor and from(), given no public key, throw the
\* MissingPublicKey TypeError and no key pair comes to exist, whatever the
\* other options are.
MissingPublicKeyRejected ==
  (last.op \in {"new", "from"} /\ Missing(Get(last.arg, "publicKeyBase58")))
    => /\ last.st = "throw"
       /\ last.err = ErrMissingPublicKey
       /\ last.err.message = "The \"publicKeyBase58\" property is required."
       /\ keys[last.slot] = NoKey

\* C6 witness: a call with a controller, a private key and no public key
\* was rejected.
MissingPublicKeyRejectedWitness ==
  /\ last.op \in {"new", "from"}
  /\ last.arg.publicKeyBase58 = Absent
  /\ last.arg.controller = Controller
  /\ last.arg.id = Absent
  /\ last.arg.privateKeyBase58 # Absent
  /\ last.st = "throw"

\* the id the last constructing call was given; the conversions from
\* Ed25519 pass none
SuppliedId ==
  IF last.op \in {"new", "from", "generate"}
  THEN Get(PassedOptions, "id")
  ELSE Undefined

\* C7: a key pair returned by the constructor, from, generate or a
\* conversion from Ed25519 keeps a supplied id; with a controller and no
\* supplied id its id is controller # fingerprint of its own public key;
\* with neither its id stays absent.
IdDerivation ==
  (last.op \in ConstructOps /\ last.st = "return") =>
    LET key == last.ret
    IN  /\ key = keys[last.slot]
        /\ IF ~Missing(SuppliedId)
           THEN key.id = SuppliedId
           ELSE IF ~Missing(key.controller)
           THEN /\ Fingerprint(key).st = "ok"
                /\ key.id = key.controller \o <<"#">> \o
                     FingerprintFromPublicKey(key.publicKeyBase58).val
                /\ key.id[Len(key.controller) + 1] = "#"
           ELSE Missing(key.id)

\* C7 witness: a conversion from Ed25519 returned a key pair with a private
\* key and a derived id.
IdDerivationWitness ==
  /\ last.op = "fromEd25519VerificationKey2018"
  /\ last.st = "return"
  /\ last.ret.controller = Controller
  /\ last.ret.privateKeyBase58 # Undefined
  /\ last.ret.id = Controller \o <<"#", "z">> \o
       Encode(<<236, 1>> \o XPublicA)

\* C8: two key pairs with the same public key and controller have the same
\* fingerprint and the same derived id, whatever their private keys: the
\* fingerprint() of one is the fingerprint in the derived id of the other.
FingerprintPublicKeyOnly ==
  (/\ keys["local"] # NoKey
   /\ keys["remote"] # NoKey
   /\ keys["local"].publicKeyBase58 = keys["remote"].publicKeyBase58
   /\ keys["local"].controller = keys["remote"].controller)
    => /\ Fingerprint(keys["local"]) = Fingerprint(keys["remote"])
       /\ (~Missing(keys["local"].controller) /\
           keys["local"].id \notin IdOptions)
            => keys["local"].id = keys["remote"].id
       /\ (~Missing(keys["remote"].controller) /\
           last.op = "fingerprint" /\ last.st = "return")
            => keys["remote"].id =
                 keys["remote"].controller \o <<"#">> \o last.ret

\* C8 witness: fingerprint() was called on a key pair whose peer has the
\* same public key and controller and another private key.
FingerprintPublicKeyOnlyWitness ==
  /\ keys["local"] # NoKey
  /\ keys["remote"] # NoKey
  /\ keys["local"].publicKeyBase58 = keys["remote"].publicKeyBase58
  /\ keys["local"].controller = Controller
  /\ keys["remote"].controller = Controller
  /\ keys["local"].privateKeyBase58 = Encode(XPrivateA)
  /\ keys["remote"].privateKeyBase58 = Encode(XPrivateB)
  /\ keys["local"].id = keys["remote"].id
  /\ last.op = "fingerprint"
  /\ last.st = "return"

\* neither flag of the last export call is set
NothingSelected ==
  \/ last.arg.given = "none"
  \/ /\ last.arg.publicKey \in {Absent, JsFalse}
     /\ last.arg.privateKey \in {Absent, JsFalse}

\* C9: export with neither publicKey nor privateKey set throws
\* ExportRequiresSelection and returns no record.
ExportRequiresSelection ==
  (last.op = "export" /\ NothingSelected)
    => /\ last.st = "throw"
       /\ last.err = ErrExportSelection
       /\ last.ret = NoKey

\* C9 witness: export({includeContext: true}) threw.
ExportRequiresSelectionWitness ==
  /\ last.op = "export"
  /\ last.arg = ExportArg("object", Absent, Absent, JsTrue)
  /\ last.st = "throw"

\* C10: the exported record has a privateKeyBase58 key exactly when the
\* privateKey flag is true and a publicKeyBase58 key exactly when the
\* publicKey flag is true.
ExportOnlySelected ==
  (last.op = "export" /\ last.st = "return")
    => /\ ("privateKeyBase58" \in DOMAIN last.ret) <=> (last.arg.privateKey = JsTrue)
       /\ ("publicKeyBase58" \in DOMAIN last.ret) <=> (last.arg.publicKey = JsTrue)

\* C10 witness: a key pair that has a private key exported its public key
\* alone.
ExportOnlySelectedWitness ==
  /\ last.op = "export"
  /\ last.st = "return"
  /\ keys["local"].privateKeyBase58 = Encode(XPrivateA)
  /\ last.arg.publicKey = JsTrue
  /\ last.arg.privateKey = Absent
  /\ DOMAIN last.ret = {"id", "type", "publicKeyBase58"}

\* the keys a successful export of the key pair this with the flags of the
\* last call has to carry
ExpectedExportKeys(this) ==
  {"id", "type"}
  \cup (IF Truthy(this.controller) THEN {"controller"} ELSE {})
  \cup (IF Truthy(this.revoked) THEN {"revoked"} ELSE {})
  \cup (IF last.arg.publicKey = JsTrue THEN {"publicKeyBase58"} ELSE {})
  \cup (IF last.arg.privateKey = JsTrue THEN {"privateKeyBase58"} ELSE {})
  \cup (IF last.arg.includeContext = JsTrue THEN {"@context"} ELSE {})

\* C11: the record a successful export returns has exactly the keys id and
\* type, controller iff the key pair has one, revoked iff it is set (with the
\* value set), the selected key fields, and '@context' (the suite context)
\* iff includeContext is true.
ExportKeySet ==
  (last.op = "export" /\ last.st = "return")
    => LET this == keys[last.slot]
       IN  /\ DOMAIN last.ret = ExpectedExportKeys(this)
           /\ last.ret.id = this.id
           /\ last.ret.type = SUITE_ID
           /\ \A k \in DOMAIN last.ret \cap
                         {"controller", "revoked", "publicKeyBase58",
                          "privateKeyBase58"} : last.ret[k] = this[k]
           /\ "@context" \in DOMAIN last.ret
                => last.ret["@context"] = SUITE_CONTEXT

\* C11 witness: a revoked key pair with a controller exported both keys and
\* the record has the six keys.
ExportKeySetWitness ==
  /\ last.op = "export"
  /\ last.st = "return"
  /\ keys["local"].revoked = Revoked
  /\ keys["local"].controller = Controller
  /\ last.arg = ExportArg("object", JsTrue, JsTrue, Absent)
  /\ DOMAIN last.ret = {"id", "type", "controller", "publicKeyBase58",
                        "privateKeyBase58", "revoked"}
  /\ last.ret.revoked = Revoked

(***************************************************************************)
(* Properties of export/reconstruct and of the key agreement, under        *)
(* SpecAgreement.                                                          *)
(***************************************************************************)
\* the options from() gets from the export of both keys of the key pair p
ExportedOptions(p) ==
  AsOptions(Export(p, ExportArg("object", JsTrue, JsTrue, Absent)).val)

\* C12: from(p.export({publicKey: true, privateKey: true})) returns a key
\* pair with the public key, the private key, the id, the controller and
\* the type of p.
ExportFromRoundTrip ==
  (/\ last.op = "from"
   /\ keys["local"] # NoKey
   /\ last.arg = ExportedOptions(keys["local"]))
    => /\ last.st = "return"
       /\ \A f \in {"publicKeyBase58", "privateKeyBase58", "id", "controller",
                    "type"} : last.ret[f] = keys["local"][f]
       /\ keys[last.slot] = last.ret

\* C12 witness: a generated key pair with a controller, so with a derived
\* id, was exported and reconstructed.
ExportFromRoundTripWitness ==
  /\ last.op = "from"
  /\ last.st = "return"
  /\ keys["local"] = Generate([NoOptions EXCEPT !.controller = Controller],
                              [publicKey |-> XPublicA, privateKey |-> XPrivateA]).val
  /\ last.arg = ExportedOptions(keys["local"])
  /\ keys["remote"].publicKeyBase58 = Encode(XPublicA)
  /\ keys["remote"].privateKeyBase58 = Encode(XPrivateA)
  /\ keys["remote"].id = keys["local"].id
  /\ Len(keys["remote"].id) > Len(Controller)

\* the key pair holds the two keys of a pair generateKeyPair() returns
IsGenerated(k) ==
  \E g \in GeneratedPairs :
    /\ k.publicKeyBase58 = Encode(g.publicKey)
    /\ k.privateKeyBase58 = Encode(g.privateKey)

\* the variable that holds the peer of the last deriveSecret call
Peer == IF last.slot = "local" THEN "remote" ELSE "local"

\* C13: for two generated key pairs A and B, A.deriveSecret({publicKey: B})
\* returns a secret and B.deriveSecret({publicKey: A}) returns the same
\* secret, on either backend.
DerivationSymmetry ==
  (/\ last.op = "deriveSecret"
   /\ IsGenerated(keys["local"])
   /\ IsGenerated(keys["remote"]))
    => /\ last.st = "return"
       /\ \A reject \in BOOLEAN :
            LET reverse == DeriveSecret(keys[Peer], keys[last.slot], reject)
            IN  /\ reverse.st = "ok"
                /\ reverse.val = last.ret

\* C13 witness: two different generated key pairs derived a secret, on the
\* nacl backend.
DerivationSymmetryWitness ==
  /\ last.op = "deriveSecret"
  /\ last.st = "return"
  /\ backend = "nacl"
  /\ IsGenerated(keys["local"])
  /\ IsGenerated(keys["remote"])
  /\ keys["local"].publicKeyBase58 # keys["remote"].publicKeyBase58
  /\ last.ret = SharedSecrets[<<XPrivateA, XPublicB>>]

\* C14: when both keys decode to raw keys, deriveSecret invokes the
\* primitive once, with the decoded local private key first and the decoded
\* remote public key second; it returns what the primitive returns for
\* them, a low-order public key included, and throws only what the
\* primitive throws.
DeriveSecretIsScalarMult ==
  last.op = "deriveSecret"
    => LET n == Decode(keys[last.slot].privateKeyBase58)
           p == Decode(keys[Peer].publicKeyBase58)
       IN  (n.st = "ok" /\ p.st = "ok" /\ IsRawKey(n.val) /\ IsRawKey(p.val))
             => /\ last.invoked = << <<n.val, p.val>> >>
                /\ last.st = "return" => last.ret = X25519(n.val, p.val)
                /\ last.st = "throw"
                     => /\ p.val = XLowOrder
                        /\ last.err = ErrDerivation

\* C14 witness: a key pair whose public key does not belong to its private
\* key derived a secret with a peer that has a private key of its own; the
\* secret is that of the local private and the remote public key.
DeriveSecretIsScalarMultWitness ==
  /\ last.op = "deriveSecret"
  /\ last.slot = "local"
  /\ last.st = "return"
  /\ keys["local"].publicKeyBase58 = Encode(XPublicB)
  /\ keys["local"].privateKeyBase58 = Encode(XPrivateA)
  /\ keys["remote"].publicKeyBase58 = Encode(XPublicB)
  /\ keys["remote"].privateKeyBase58 = Encode(XPrivateB)
  /\ last.invoked = << <<XPrivateA, XPublicB>> >>
  /\ last.ret = SharedSecrets[<<XPrivateA, XPublicB>>]

\* the base58 field is missing or holds a character outside the alphabet
MalformedOrMissing(v) == ~IsString(v) \/ Decode(v).st = "undefined"

\* C15: a deriveSecret call with malformed or missing base58 on either side
\* throws, returns no secret and never invokes the primitive.
DecodeFailsBeforePrimitive ==
  (/\ last.op = "deriveSecret"
   /\ \/ MalformedOrMissing(keys[last.slot].privateKeyBase58)
      \/ MalformedOrMissing(keys[Peer].publicKeyBase58))
    => /\ last.st = "throw"
       /\ last.ret = NoKey
       /\ last.invoked = <<>>

As2020(keyPair) ==
  [controller |-> keyPair.controller,
   publicKeyMultibase |->
     Multibase(<<237, 1>>, Decode(keyPair.publicKeyBase58).val),
   privateKeyMultibase |->
     IF Truthy(keyPair.privateKeyBase58)
     THEN Multibase(<<128, 38>>, Decode(keyPair.privateKeyBase58).val)
     ELSE Undefined]

\* C18: for the same key bytes and controller, the 2018 entry point on the
\* base58 fields and the 2020 entry point on the multibase fields both
\* return a key pair or both fail, and the key pairs have equal public key,
\* private key, controller, type and id.
EntryPointsAgree ==
  (/\ last.op = "fromEd25519VerificationKey2018"
   /\ Decode(last.arg.publicKeyBase58).st = "ok"
   /\ Truthy(last.arg.privateKeyBase58)
        => Decode(last.arg.privateKeyBase58).st = "ok")
    => LET other == FromEd25519VerificationKey2020(As2020(last.arg))
       IN  /\ (last.st = "return") <=> (other.st = "ok")
           /\ last.st = "return"
                => \A f \in {"publicKeyBase58", "privateKeyBase58",
                             "controller", "type", "id"} :
                     last.ret[f] = other.val[f]

\* C18 witness: a full-length source with a controller and its 64-byte
\* private key was converted by the 2018 entry point.
EntryPointsAgreeWitness ==
  /\ last.op = "fromEd25519VerificationKey2018"
  /\ last.st = "return"
  /\ last.arg.controller = Controller
  /\ last.arg.privateKeyBase58 = Encode(EdSecretFull)
  /\ last.ret.publicKeyBase58 = Encode(XPublicFull)
  /\ FromEd25519VerificationKey2020(As2020(last.arg)).val = last.ret

\* the multibase text is 'z' and the base58 of a value that begins with
\* the header
HasHeader(text, header) ==
  /\ Head(text) = "z"
  /\ LET value == Decode(Tail(text))
     IN  /\ value.st = "ok"
         /\ Len(value.val) >= Len(header)
         /\ SubSeq(value.val, 1, Len(header)) = header

\* the base58 of the bytes that follow a 2-byte header in the multibase text
AfterHeader(text) ==
  LET value == Decode(Tail(text)).val
  IN  Encode(SubSeq(value, 3, Len(value)))

\* C19: fromEd25519VerificationKey2020 throws and returns no key pair when
\* the public multibase value is missing, does not start with 'z' or does
\* not decode to a value that begins with 0xed 0x01, and when a private
\* multibase value is present and does not start with 'z' or does not decode
\* to a value that begins with 0x80 0x26; a returned key pair holds the
\* conversions of exactly the bytes after the headers.
Ed2020Validation ==
  last.op = "fromEd25519VerificationKey2020"
    => LET public == last.arg.publicKeyMultibase
           private == last.arg.privateKeyMultibase
       IN  /\ ~Truthy(public)
                => last.st = "throw" /\ last.err = ErrSourcePublicKeyRequired
           /\ (Truthy(public) /\ Head(public) # "z")
                => last.st = "throw" /\ last.err = ErrSourcePublicEncoding
           /\ (Truthy(public) /\ ~HasHeader(public, <<237, 1>>))
                => last.st = "throw"
           /\ (Truthy(private) /\ ~HasHeader(private, <<128, 38>>))
                => last.st = "throw"
           /\ last.st = "throw" => last.ret = NoKey /\ keys[last.slot] = NoKey
           /\ last.st = "return"
                => /\ last.ret.publicKeyBase58 =
                        ConvertFromEdPublicKey(AfterHeader(public)).val
                   /\ last.ret.privateKeyBase58 =
                        IF Truthy(private)
                        THEN ConvertFromEdPrivateKey(AfterHeader(private)).val
                        ELSE Undefined

\* C19 witness: a source with a valid public value and a private value
\* shorter than its header was rejected for the header.
Ed2020ValidationWitness ==
  /\ last.op = "fromEd25519VerificationKey2020"
  /\ last.arg.publicKeyMultibase = Multibase(<<237, 1>>, EdPublicA)
  /\ last.arg.privateKeyMultibase = Multibase(<<128>>, <<>>)
  /\ last.st = "throw"
  /\ last.err = ErrMultibaseHeader
  /\ keys["local"] = NoKey

\* C20: converting a 64-byte Ed25519 private key gives what converting its
\* first 32 bytes gives, and the result is 32 bytes long.
SeedOnly ==
  (/\ last.op = "convertFromEdPrivateKey"
   /\ Decode(last.arg).st = "ok"
   /\ Len(Decode(last.arg).val) = 64)
    => /\ last.st = "return"
       /\ last.ret =
            ConvertFromEdPrivateKey(
              Encode(SubSeq(Decode(last.arg).val, 1, 32))).val
       /\ Len(Decode(last.ret).val) = 32

\* C20 witness: a 64-byte private key whose second half is not the public
\* key of its seed was converted to what the seed alone converts to.
SeedOnlyWitness ==
  /\ last.op = "convertFromEdPrivateKey"
  /\ last.st = "return"
  /\ last.arg = Encode(EdSeedFull \o XPublicFull)
  /\ last.ret = ConvertFromEdPrivateKey(Encode(EdSeedFull)).val
  /\ last.ret # ConvertFromEdPrivateKey(Encode(XPublicFull)).val

\* the public key decodes to bytes that are a point of the curve
IsValidPoint(publicKeyBase58) ==
  /\ Decode(publicKeyBase58).st = "ok"
  /\ Decode(publicKeyBase58).val \in DOMAIN EdwardsToMontgomery

\* C21: convertFromEdPublicKey on bytes that are no valid point throws the
\* InvalidEd25519 public key error, convertFromEdPrivateKey on an input that
\* is no base58 string throws the InvalidEd25519 private key error, and
\* neither returns a key.
ConversionErrorsNamed ==
  /\ (last.op = "convertFromEdPublicKey" /\ ~IsValidPoint(last.arg))
       => /\ last.st = "throw"
          /\ last.ret = NoKey
          /\ last.err.message =
               "Error converting to X25519; Invalid Ed25519 public key."
  /\ (last.op = "convertFromEdPrivateKey" /\ MalformedOrMissing(last.arg))
       => /\ last.st = "throw"
          /\ last.ret = NoKey
          /\ last.err.message =
               "Error converting to X25519; Invalid Ed25519 private key."

\* the fingerprint the last call got is not a 'z'-prefixed string of a
\* buffer that starts with 0xec 0x01
PassedUnsupported ==
  \/ last.arg.given = "null"
  \/ ~PassedIsMultibase
  \/ PassedBuffer.st # "ok"
  \/ PassedHeaderWrong

FromFingerprintPublicOnly ==
  (last.op = "fromFingerprint" /\ last.st = "return")
    => /\ Decode(last.ret.publicKeyBase58).val =
            SubSeq(PassedBuffer.val, 3, Len(PassedBuffer.val))
       /\ last.ret.privateKeyBase58 = Undefined
       /\ last.ret.controller = Undefined
       /\ last.ret.id = Undefined
       /\ last.ret.type = <<"X25519KeyAgreementKey2019">>
       /\ keys[last.slot] = last.ret

\* C23 witness: the fingerprint of the 32-byte key of the tests gave a key
\* pair with that public key.
FromFingerprintPublicOnlyWitness ==
  /\ last.op = "fromFingerprint"
  /\ last.st = "return"
  /\ PassedFingerprint = MockFingerprint
  /\ Decode(last.ret.publicKeyBase58).val = MockPublicKey
  /\ last.ret.privateKeyBase58 = Undefined

\* C24 as stated: fingerprint() of every constructed key pair returns 'z'
\* followed by the base58 encoding of a buffer of exactly 34 bytes: 0xec,
\* 0x01 and the 32 bytes of the public key.
FingerprintIs34Bytes ==
  last.op = "fingerprint"
    => /\ last.st = "return"
       /\ Head(last.ret) = "z"
       /\ LET buffer == Decode(Tail(last.ret)).val
          IN  /\ Len(buffer) = 34
              /\ buffer[1] = 236
              /\ buffer[2] = 1
              /\ Len(LocalPublicKey.val) = 32
              /\ SubSeq(buffer, 3, 34) = LocalPublicKey.val

\* the base58 string decodes to exactly 32 bytes
DecodesTo32Bytes(text) ==
  /\ Decode(text).st = "ok"
  /\ Len(Decode(text).val) = 32

\* C25 as stated: every key pair there is has a public key that decodes to
\* exactly 32 bytes and, when it has one, a private key that decodes to
\* exactly 32 bytes.
KeyLengthInvariant ==
  \A s \in Slots :
    keys[s] # NoKey
      => /\ DecodesTo32Bytes(keys[s].publicKeyBase58)
         /\ keys[s].privateKeyBase58 # Undefined
              => DecodesTo32Bytes(keys[s].privateKeyBase58)

\* the methods of a key pair, as opposed to the calls that construct one
MethodOps == {"fingerprint", "verifyFingerprint", "export", "deriveSecret"}

\* C26: a call of fingerprint, verifyFingerprint, export or deriveSecret,
\* returning or throwing, leaves every field of every key pair as it was:
\* those of the key pair it is called on and those of the key pair passed
\* to deriveSecret.
MethodsKeepKeys ==
  [][last'.op \in MethodOps => keys' = keys]_vars

\* C26 witness: deriveSecret threw on a malformed private key, with the
\* local and the remote key pair both in place.
MethodsKeepKeysWitness ==
  /\ last.op = "deriveSecret"
  /\ last.st = "throw"
  /\ last.slot = "local"
  /\ keys["local"] # NoKey
  /\ keys["local"].privateKeyBase58 = Malformed
  /\ keys["remote"] # NoKey
  /\ keys["remote"] = last.arg.publicKey

\* C27 as stated: whatever fields its options carry, generate returns a key
\* pair whose public and private keys are the base58 encodings of the pair
\* the generation primitive returned to that call, with the caller's
\* controller and id.
GenerateKeysFromPrimitive ==
  last.op = "generate"
    => /\ last.st = "return"
       /\ last.ret.publicKeyBase58 = Encode(last.arg.pair.publicKey)
       /\ last.ret.privateKeyBase58 = Encode(last.arg.pair.privateKey)
       /\ Truthy(last.arg.options.controller)
            => last.ret.controller = last.arg.options.controller
       /\ Truthy(last.arg.options.id)
            => last.ret.id = last.arg.options.id

\* C29: every key pair there is, and every key pair a constructing call
\* returned, has the type 'X25519KeyAgreementKey2019', the suite of the
\* class, whatever type the options carried.
TypeInvariant ==
  /\ \A s \in Slots : keys[s] # NoKey => keys[s].type = SUITE_ID
  /\ (last.op \in ConstructOps /\ last.st = "return")
       => last.ret.type = <<"X25519KeyAgreementKey2019">>

\* C29 witness: the constructor or from() got options with the type of
\* another suite and returned a key pair of this suite.
TypeInvariantWitness ==
  /\ last.op \in {"new", "from"}
  /\ last.arg.type = <<"Ed25519VerificationKey2018">>
  /\ last.st = "return"
  /\ last.ret.type = SUITE_ID
  /\ keys[last.slot] = last.ret

\* verifyFingerprint returned {valid: true}
ReturnedValid ==
  /\ last.op = "verifyFingerprint"
  /\ last.st = "return"
  /\ last.ret.valid

\* C30: a fingerprint fromFingerprint makes a key pair of is one that key
\* pair verifies, and a fingerprint a key pair verifies is one
\* fromFingerprint makes a key pair of, with the bytes of that key pair's
\* public key; this holds whatever the length of the payload after the
\* header, and a fingerprint with no payload at all is accepted by neither.
SameFingerprintsAccepted ==
  /\ (last.op = "fromFingerprint" /\ last.st = "return")
       => VerifyFingerprint(last.ret, last.arg) = Ok([valid |-> TRUE])
  /\ ReturnedValid
       => \E r \in {FromFingerprint(last.arg)} :
            /\ r.st = "ok"
            /\ Decode(r.val.publicKeyBase58) = LocalPublicKey
  /\ (last.op \in {"fromFingerprint", "verifyFingerprint"} /\
      PassedIsMultibase /\ PassedBuffer = Ok(FingerprintHeader))
       => /\ last.op = "fromFingerprint" => last.st = "throw"
          /\ last.op = "verifyFingerprint" => ~ReturnedValid

\* C30 witness: a key pair with a public key of one byte verified a
\* fingerprint with a payload of one byte.
SameFingerprintsAcceptedWitness ==
  /\ ReturnedValid
  /\ Len(LocalPublicKey.val) = 1
  /\ Len(PassedBuffer.val) = 3
  /\ FromFingerprint(last.arg).st = "ok"

\* the call was started and its caller is or was waiting for it
Started(i) == calls[i].phase # "idle"

\* what the caller of call i got, or will get, is what a deriveSecret call
\* alone gives for the key pair and the remote key of call i, and the key
\* pair is as call i found it
CallRight(i) ==
  LET n == Decode(keys["local"].privateKeyBase58)
      p == Decode(calls[i].publicKey.publicKeyBase58)
  IN  /\ keys["local"] = calls[i].this
      /\ calls[i].result =
           DeriveSecret(keys["local"], calls[i].publicKey, calls[i].reject)
      /\ (n.st = "ok" /\ p.st = "ok" /\ IsRawKey(n.val) /\ IsRawKey(p.val) /\
          p.val # XLowOrder)
           => /\ calls[i].result.st = "ok"
              /\ calls[i].result.val = X25519(n.val, p.val)
              /\ calls[i].result.invoked = << <<n.val, p.val>> >>

\* the caller resumed last got the result of a call of its own
ResumedRight ==
  last.op = "deriveSecret"
    => \E i \in Calls :
         /\ calls[i].phase = "settled"
         /\ last.arg.publicKey = calls[i].publicKey
         /\ last.st = (IF calls[i].result.st = "throw" THEN "throw" ELSE "return")
         /\ last.st = "return" => last.ret = calls[i].result.val
         /\ last.err = calls[i].result.err
         /\ last.invoked = calls[i].result.invoked

\* C28: with several deriveSecret calls in flight on one key pair, in every
\* order of starting and resuming them, each call that was started is
\* resumed, with the outcome of a call made alone for its own remote key:
\* for raw keys the scalar multiplication of the local private key and that
\* remote public key; the key pair stays as each call found it.
ConcurrentDerivation ==
  /\ [](ResumedRight /\ \A i \in Calls : Started(i) => CallRight(i))
  /\ \A i \in Calls :
       (calls[i].phase = "pending") ~> (calls[i].phase = "settled")

\* C28 witness: two calls with different remote keys were in flight
\* together and the one started first was resumed last, with the secret of
\* its own remote key.
ConcurrentDerivationWitness ==
  /\ calls[1].phase = "settled"
  /\ calls[2].phase = "settled"
  /\ calls[1].publicKey.publicKeyBase58 = Encode(XPublicB)
  /\ calls[2].publicKey.publicKeyBase58 = Encode(XPublicA)
  /\ last.arg.publicKey = calls[1].publicKey
  /\ last.st = "return"
  /\ last.ret = X25519(XPrivateA, XPublicB)
  /\ keys["local"].privateKeyBase58 = Encode(XPrivateA)

====
